---------------------------- MODULE Spec2Model ----------------------------
(***************************************************************************)
(* A model of the CMA experiment monitor (utils.py, app.py,                *)
(* streamlit_app.py): the event normalizer, the group resolver, the        *)
(* visitor aggregator, the balance / A-B statistics and the secondary-log  *)
(* correlator.  Tables are sequences of records in row order; an optional  *)
(* cell is the empty tuple (null / NaN / NaT) or a one-element tuple.      *)
(***************************************************************************)
EXTENDS Integers, Sequences, FiniteSets, TLC

VARIABLES
    response_text,            \* the lines of the primary log, in log order
    status_code,              \* HTTP status of the last fetch
    pc,                       \* position of the script
    error,                    \* the exception that ended the run, or "none"
    clean_tracker,            \* the event table
    selected_standard_group,  \* the experiment version picked in the selectbox
    selected_clean_tracker,   \* the rows of the picked version
    uuid_tracker,             \* the visitor table (one record per visitor)
    group_stats,              \* gen_output_tables: per-group summary
    pairwise_results,         \* gen_output_tables: pairwise comparison rows
    datetime_input,           \* a datetime column as handed to gen_output_tables
    df_col,                   \* that column of df: [tz, cells]
    mean_col,                 \* its (col, 'mean') column in group_stats
    ab_test_results,          \* calculate_ab_test_stats: one row per test arm
    power_insights,           \* app.py:536-548: the calls of solve_power
    daily_counts,             \* analyze_time_series: the daily signup grid
    error_log_df,             \* parse_error_log: the secondary log's table
    ip_uuid_map,              \* merge_ip_data: the IP-to-visitor mapping
    geo_db,                   \* GeoLite2-City.mmdb: the outcome of a lookup, per IP
    location_df,              \* analyze_visitor_locations: the located rows
    country_stats,            \* analyze_visitor_locations: per country and group
    error_ips,                \* analyze_visitor_locations: its list of failures
    user_type_data,           \* analyze_user_types: one record per visitor
    dimension_stats           \* the demographic, referral and screen tables

\* The variables of the script from fetch to aggregation.
pipelineVars == <<response_text, status_code, clean_tracker,
                  selected_standard_group, selected_clean_tracker>>
balanceVars == <<group_stats, pairwise_results>>
datetimeVars == <<datetime_input, df_col, mean_col>>
\* The variables of the components that are also run on tables of their own.
abVars == <<ab_test_results, power_insights>>
seriesVars == <<daily_counts>>
ipVars == <<error_log_df, ip_uuid_map>>
geoVars == <<geo_db, location_df, country_stats, error_ips>>
analysisVars == <<geoVars, user_type_data, dimension_stats>>
componentVars == <<balanceVars, datetimeVars, abVars, seriesVars, ipVars,
                   analysisVars>>

vars == <<pc, error, pipelineVars, uuid_tracker, componentVars>>

-----------------------------------------------------------------------------
(* Bounds of the model *)

MaxLines == 3
MaxColumn == 2
MaxVisitors == 3
MaxArm == 4
MaxRows == 3
MaxEvents == 2
MaxLogEntries == 2
MaxMappings == 2
MaxDimRows == 3

-----------------------------------------------------------------------------
(* Optional cells *)

None == <<>>
Some(x) == <<x>>
isna(c) == c = None
notna(c) == c # None

Indices(s) == 1..Len(s)

RECURSIVE SumOver(_, _)
SumOver(f, S) ==
    IF S = {} THEN 0
    ELSE LET x == CHOOSE y \in S : TRUE IN f[x] + SumOver(f, S \ {x})

-----------------------------------------------------------------------------
(* The primary log: one JSON object per line, or a line json.loads rejects *)

\* Visitor ids, in the order groupby('uuid') sorts them.
UuidOrder == <<"a", "b", "c", "d", "e">>
Uuids == {"a", "b"}

HOMEPAGE == <<"https://", "checkmyads.org/">>
ABOUT_URL == <<"https://", "checkmyads.org/", "about">>

\* A line with a timestamp (milliseconds since the epoch, UTC).
JsonLineAt(u, e, g, url, ts) ==
    [parses |-> TRUE, uuid |-> u, event |-> e, group |-> g, url |-> url,
     timestamp |-> ts]

\* A line whose timestamp is missing or unparseable.
JsonLine(u, e, g, url) == JsonLineAt(u, e, g, url, None)

MalformedLine ==
    [parses |-> FALSE, uuid |-> "", event |-> "", group |-> None, url |-> None,
     timestamp |-> None]

\* Lines of a log that exercises the group resolver.
ResolverLines ==
    { JsonLine(u, e, g, None) :
        u \in Uuids, e \in {"group_v1", "group_v2", "page_view"},
        g \in {None, Some(1), Some(2)} }
    \cup {MalformedLine}

\* Lines of a log that exercises the visitor aggregator.
AggregatorLines ==
    { JsonLine(u, "group_v1", Some(2), None) : u \in Uuids }
    \cup { JsonLine(u, "page_view", None, url) :
             u \in Uuids, url \in {HOMEPAGE, ABOUT_URL} }
    \cup { JsonLine(u, "session_start", None, url) :
             u \in Uuids, url \in {HOMEPAGE, ABOUT_URL} }
    \cup { JsonLine(u, "donation", None, None) : u \in Uuids }

-----------------------------------------------------------------------------
(* Event Normalizer: fetch_and_process_data *)

\* json.loads(line) for line in response.text.splitlines(): one malformed
\* line raises out of the list comprehension.
JsonLoadsRaises(text) == \E i \in Indices(text) : ~text[i].parses

\* pd.to_datetime(errors='coerce', utc=True) leaves a UTC instant or NaT.
Normalize(text) ==
    [i \in Indices(text) |->
        [timestamp |-> text[i].timestamp,
         uuid |-> text[i].uuid, event |-> text[i].event,
         group |-> text[i].group, url |-> text[i].url]]

-----------------------------------------------------------------------------
(* Group Resolver: process_clean_tracker *)

VersionMarkers == {"group_v1", "group_v2"}

\* Series.str.extract(r'(group_v\d+)'): the marker, or NaN.
ExtractVersion(event) ==
    IF event \in VersionMarkers THEN Some(event) ELSE None

\* Series.ffill(): a null cell takes the closest non-null cell above it.
RECURSIVE FfillAt(_, _)
FfillAt(s, i) ==
    IF notna(s[i]) THEN s[i]
    ELSE IF i = 1 THEN None
    ELSE FfillAt(s, i - 1)

ffill(s) == [i \in Indices(s) |-> FfillAt(s, i)]

\* Series.bfill(): a null cell takes the closest non-null cell below it.
RECURSIVE BfillAt(_, _)
BfillAt(s, i) ==
    IF notna(s[i]) THEN s[i]
    ELSE IF i = Len(s) THEN None
    ELSE BfillAt(s, i + 1)

bfill(s) == [i \in Indices(s) |-> BfillAt(s, i)]

\* (mutant) the forward pass alone.
ForwardFillOnly(g) == ffill(g)

\* (mutant) the two passes in the other order.
BackwardThenForward(g) == ffill(bfill(g))

\* lambda g: g.ffill().bfill()
FillGroup(g) == bfill(ffill(g))

\* clean_tracker['standard_group']: extract, ffill over the whole column,
\* then fillna('group_v1').
StandardGroupColumn(t) ==
    LET extracted == [i \in Indices(t) |-> ExtractVersion(t[i].event)]
        filled == ffill(extracted)
    IN  [i \in Indices(t) |->
            IF isna(filled[i]) THEN "group_v1" ELSE filled[i][1]]

\* (mutant) groupby('uuid') alone: the version is left out of the key.
PartitionByUuidOnly(t, sg, i) ==
    {j \in Indices(t) : t[j].uuid = t[i].uuid}

\* The rows of the (uuid, standard_group) partition row i belongs to.
PartitionOf(t, sg, i) ==
    {j \in Indices(t) : t[j].uuid = t[i].uuid /\ sg[j] = sg[i]}

\* groupby(['uuid', 'standard_group'])['group'].transform(f), at row i.
TransformAt(t, sg, i) ==
    LET part == PartitionOf(t, sg, i)
        idx  == SelectSeq([k \in Indices(t) |-> k], LAMBDA k : k \in part)
        col  == [n \in Indices(idx) |-> t[idx[n]].group]
        rank == Cardinality({j \in part : j <= i})
    IN  FillGroup(col)[rank]

ProcessCleanTracker(t) ==
    LET sg == StandardGroupColumn(t)
    IN  [i \in Indices(t) |->
            [timestamp |-> t[i].timestamp,
             uuid |-> t[i].uuid, event |-> t[i].event,
             group |-> t[i].group, url |-> t[i].url,
             standard_group |-> sg[i],
             random_group |-> TransformAt(t, sg, i)]]

\* clean_tracker[~clean_tracker['random_group'].isna()]
DropUnresolved(t) == SelectSeq(t, LAMBDA r : notna(r.random_group))

-----------------------------------------------------------------------------
(* Visitor Aggregator: process_event_data *)

\* str.lower(), token by token.
Lower(token) ==
    CASE token = "About" -> "about"
      [] token = "CheckMyAds.org/" -> "checkmyads.org/"
      [] OTHER -> token

LowerUrl(url) == [i \in Indices(url) |-> Lower(url[i])]

\* keyword in ref: ref holds keyword as a contiguous run.
Contains(ref, keyword) ==
    \E off \in 0..(Len(ref) - Len(keyword)) :
        \A i \in Indices(keyword) : ref[off + i] = keyword[i]

\* The rows of one visitor, by row index.
RowsOf(t, u) == {i \in Indices(t) : t[i].uuid = u}

\* (mutant) whether the event occurs, instead of how often.
event_present(t, rows, event_name) ==
    IF \E i \in rows : t[i].event = event_name THEN 1 ELSE 0

\* count_event: (event_series == event_name).sum()
count_event(t, rows, event_name) ==
    Cardinality({i \in rows : t[i].event = event_name})

\* (mutant) the homepage test as a prefix test.
UrlStartsWithHomepage(url) == notna(url) /\ Contains(url, HOMEPAGE)

\* url_series == 'https://checkmyads.org/'
IsHomepage(url) == url = HOMEPAGE

\* calculate_homepage_pct(x, clean_tracker['event']): x is the visitor's url
\* column, the event series is the event column of the whole table.  The
\* quotient is kept as the pair <<numerator, denominator>>; NaN is None.
calculate_homepage_pct(t, rows) ==
    LET page_view_count == count_event(t, Indices(t), "page_view")
    IN  IF page_view_count > 0
        THEN Some(<<Cardinality({i \in rows : IsHomepage(t[i].url)}),
                    page_view_count>>)
        ELSE None

\* check_url_presence: any(isinstance(ref, str) and keyword in ref.lower())
check_url_presence(t, rows, keyword) ==
    IF \E i \in rows : notna(t[i].url) /\ Contains(LowerUrl(t[i].url), keyword)
    THEN 1 ELSE 0

\* groupby 'first': the first non-null cell of the visitor's rows.
FirstGroup(t, rows) ==
    LET known == {i \in rows : notna(t[i].random_group)}
    IN  IF known = {} THEN None
        ELSE t[CHOOSE i \in known : \A j \in known : i <= j].random_group

\* x.loc[clean_tracker['event'] == 'session_start']: the visitor's
\* session_start timestamps; min, mean and max skip NaT.
SessionTimes(t, rows) ==
    {i \in rows : t[i].event = "session_start" /\ notna(t[i].timestamp)}

MinTime(t, S) ==
    IF S = {} THEN None
    ELSE t[CHOOSE i \in S : \A j \in S : t[i].timestamp[1] <= t[j].timestamp[1]].timestamp

MaxTime(t, S) ==
    IF S = {} THEN None
    ELSE t[CHOOSE i \in S : \A j \in S : t[i].timestamp[1] >= t[j].timestamp[1]].timestamp

\* The mean instant, to the resolution of the model.
MeanTime(t, S) ==
    IF S = {} THEN None
    ELSE Some(SumOver([i \in S |-> t[i].timestamp[1]], S) \div Cardinality(S))

VisitorRecord(t, u) ==
    LET rows == RowsOf(t, u)
    IN  [uuid |-> u,
         first_session_start_time |-> MinTime(t, SessionTimes(t, rows)),
         average_session_start_time |-> MeanTime(t, SessionTimes(t, rows)),
         last_session_start_time |-> MaxTime(t, SessionTimes(t, rows)),
         random_group |-> FirstGroup(t, rows),
         num_sessions |-> count_event(t, rows, "session_start"),
         num_page_views |-> count_event(t, rows, "page_view"),
         num_popup_views |-> count_event(t, rows, "popup_view"),
         num_referral |-> count_event(t, rows, "referral"),
         num_newsletter_signup |-> count_event(t, rows, "newsletter_signup"),
         num_donation |-> count_event(t, rows, "donation"),
         homepage_pct |-> calculate_homepage_pct(t, rows),
         view_about |-> check_url_presence(t, rows, <<"checkmyads.org/", "about">>),
         view_news |-> check_url_presence(t, rows, <<"checkmyads.org/", "news">>)]

\* clean_tracker.groupby('uuid').agg(...).reset_index(): one record per
\* visitor id present, in key order.
ProcessEventData(t) ==
    LET present == SelectSeq(UuidOrder, LAMBDA u : RowsOf(t, u) # {})
    IN  [n \in Indices(present) |-> VisitorRecord(t, present[n])]

-----------------------------------------------------------------------------
(* Numeric-vs-datetime handling: datetime_to_numeric, convert_datetime_back *)

\* pd.Timedelta('1s'), in the model's unit (milliseconds).
MillisPerSecond == 1000

\* (mutant) a division that rounds toward zero.
TruncatingSeconds(ms) ==
    IF ms < 0 THEN 0 - ((0 - ms) \div MillisPerSecond) ELSE ms \div MillisPerSecond

\* (instant - pd.Timestamp("1970-01-01")) // pd.Timedelta('1s'): floor
\* division of the offset from the epoch.
WholeSeconds(ms) == ms \div MillisPerSecond

\* One cell of datetime_to_numeric: NaT becomes NaN.
DatetimeToNumericCell(c) ==
    IF isna(c) THEN None ELSE Some(WholeSeconds(c[1]))

\* df[col].dt.tz is None: the column is localized to UTC and the subtraction
\* of the tz-naive pd.Timestamp("1970-01-01") raises TypeError; a tz-aware
\* column is converted to UTC, made naive and subtracted.
DatetimeToNumericRaises(col) == col.tz = "naive"

DatetimeToNumeric(col) ==
    [tz |-> "numeric",
     cells |-> [i \in Indices(col.cells) |-> DatetimeToNumericCell(col.cells[i])]]

\* pd.to_datetime(x, unit='s'): the tz-naive instant x seconds after the
\* epoch; NaN becomes NaT.
ToDatetimeSeconds(c) ==
    IF isna(c) THEN None ELSE Some(c[1] * MillisPerSecond)

ConvertDatetimeBack(means) ==
    [tz |-> "naive",
     cells |-> [i \in Indices(means.cells) |-> ToDatetimeSeconds(means.cells[i])]]

-----------------------------------------------------------------------------
(* Balance / Statistics Engine: gen_output_tables *)

\* Exact quotients <<numerator, denominator>>, denominator > 0.
RatAdd(x, y) == <<x[1] * y[2] + y[1] * x[2], x[2] * y[2]>>
RatSub(x, y) == <<x[1] * y[2] - y[1] * x[2], x[2] * y[2]>>
RatEq(x, y) == x[1] * y[2] = y[1] * x[2]
RatLess(x, y) == x[1] * y[2] < y[1] * x[2]

RECURSIVE RatSum(_)
RatSum(sample) ==
    IF sample = <<>> THEN <<0, 1>> ELSE RatAdd(Head(sample), RatSum(Tail(sample)))

\* Series.mean() of a sample without NaN; NaN for an empty sample.
Mean(sample) ==
    IF sample = <<>> THEN None
    ELSE LET sum == RatSum(sample) IN Some(<<sum[1], sum[2] * Len(sample)>>)

\* The sample variance is zero: all values are equal.
ZeroVariance(sample) ==
    \A i, j \in Indices(sample) : RatEq(sample[i], sample[j])

\* scipy.stats.ttest_ind(a, b, equal_var=False): the p-value, by what decides
\* it.  With fewer than two values on a side the variance is NaN; with both
\* variances zero the statistic is 0/0 or infinite; otherwise the p-value is
\* 1 exactly when the means are equal.
WelchPValue(a, b) ==
    IF Len(a) < 2 \/ Len(b) < 2 THEN "nan"
    ELSE IF ZeroVariance(a) /\ ZeroVariance(b)
         THEN IF RatEq(Mean(a)[1], Mean(b)[1]) THEN "nan" ELSE "0"
    ELSE IF RatEq(Mean(a)[1], Mean(b)[1]) THEN "1"
    ELSE "between 0 and 1"

\* A numeric cell as an optional quotient: a count c is c/1.
IntCell(c) == Some(<<c, 1>>)
OptIntCell(c) == IF isna(c) THEN None ELSE Some(<<c[1], 1>>)

\* df.select_dtypes(include=['float64', 'int64']) without 'random_group',
\* in column order, and the cell of each column as a quotient.
NumericCols ==
    <<"num_sessions", "num_page_views", "num_popup_views", "num_referral",
      "num_newsletter_signup", "num_donation", "first_session_start_time",
      "average_session_start_time", "last_session_start_time", "homepage_pct",
      "view_about", "view_news">>

DatetimeCols ==
    {"first_session_start_time", "average_session_start_time",
     "last_session_start_time"}

NumericCell(r, col) ==
    IF col \in DatetimeCols THEN OptIntCell(r[col])
    ELSE IF col = "homepage_pct" THEN r[col]
    ELSE IntCell(r[col])

\* The visitors of one group, in table order, and the non-NaN values of one
\* column among them (dropna).
GroupRows(df, g) == SelectSeq(df, LAMBDA r : r.random_group = Some(g))

Sample(df, g, col) ==
    LET cells == [i \in Indices(GroupRows(df, g)) |->
                    NumericCell(GroupRows(df, g)[i], col)]
        kept == SelectSeq(cells, LAMBDA c : notna(c))
    IN  [i \in Indices(kept) |-> kept[i][1]]

\* sorted(df['random_group'].unique())
RECURSIVE SortedSeq(_)
SortedSeq(S) ==
    IF S = {} THEN <<>>
    ELSE LET m == CHOOSE x \in S : \A y \in S : x <= y
         IN  <<m>> \o SortedSeq(S \ {m})

GroupsOf(df) == SortedSeq({df[i].random_group[1] : i \in Indices(df)})

\* (mutant) itertools.permutations(groups, 2): every ordered pair.
RECURSIVE PermutationPairsFrom(_, _)
PermutationPairsFrom(groups, i) ==
    IF i > Len(groups) THEN <<>>
    ELSE LET others == SelectSeq(groups, LAMBDA g : g # groups[i])
         IN  [j \in Indices(others) |-> <<groups[i], others[j]>>]
             \o PermutationPairsFrom(groups, i + 1)

PermutationPairs(groups) == PermutationPairsFrom(groups, 1)

\* itertools.combinations(groups, 2): the pairs (groups[i], groups[j]), i < j,
\* in lexicographic order of position.
RECURSIVE Combinations2(_)
Combinations2(groups) ==
    IF Len(groups) < 2 THEN <<>>
    ELSE [j \in 1..(Len(groups) - 1) |-> <<groups[1], groups[j + 1]>>]
         \o Combinations2(Tail(groups))

\* The datetime columns of df after datetime_to_numeric (in place).  The
\* columns come from timestamps parsed with utc=True and are tz-aware.
DatetimeToNumericRow(r) ==
    [col \in DOMAIN r |->
        IF col \in DatetimeCols THEN DatetimeToNumericCell(r[col]) ELSE r[col]]

DatetimeToNumericTable(df) == [i \in Indices(df) |-> DatetimeToNumericRow(df[i])]

\* streamlit_app.gen_output_tables: one row per pair of groups and column.
PairRows(df, pair) ==
    [c \in Indices(NumericCols) |->
        [Characteristic |-> NumericCols[c],
         Group1 |-> pair[1],
         Group2 |-> pair[2],
         p_value |-> WelchPValue(Sample(df, pair[1], NumericCols[c]),
                                 Sample(df, pair[2], NumericCols[c]))]]

RECURSIVE PairwiseRows(_, _)
PairwiseRows(df, pairs) ==
    IF pairs = <<>> THEN <<>>
    ELSE PairRows(df, Head(pairs)) \o PairwiseRows(df, Tail(pairs))

PairwiseTTests(df) == PairwiseRows(df, Combinations2(GroupsOf(df)))

\* group_stats: numeric_df.groupby('random_group').agg(['mean', 'std']) and
\* convert_datetime_back on the datetime means (the standard deviations,
\* real numbers, are left out).  A datetime mean is converted back to the
\* resolution of the model.
MeanBack(m) ==
    IF isna(m) THEN None
    ELSE Some((m[1][1] * MillisPerSecond) \div m[1][2])

GroupStats(df) ==
    LET groups == GroupsOf(df)
    IN  [n \in Indices(groups) |->
            [random_group |-> groups[n],
             mean |-> [c \in Indices(NumericCols) |->
                         LET m == Mean(Sample(df, groups[n], NumericCols[c]))
                         IN  IF NumericCols[c] \in DatetimeCols
                             THEN MeanBack(m) ELSE m]]]

\* utils.gen_output_tables: one row per pair of groups, the differences of
\* the group means in two columns; group_stats holds counts and means.
MeanDiff(df, g1, g2, col) ==
    RatSub(Mean(Sample(df, g1, col))[1], Mean(Sample(df, g2, col))[1])

PairwiseDiffs(df) ==
    LET pairs == Combinations2(GroupsOf(df))
    IN  [n \in Indices(pairs) |->
            [comparison |-> pairs[n],
             sessions_diff |-> MeanDiff(df, pairs[n][1], pairs[n][2], "num_sessions"),
             pageviews_diff |-> MeanDiff(df, pairs[n][1], pairs[n][2], "num_page_views")]]

GroupStatsApp(df) ==
    LET groups == GroupsOf(df)
    IN  [n \in Indices(groups) |->
            [random_group |-> groups[n],
             count |-> Len(GroupRows(df, groups[n])),
             num_sessions_mean |-> Mean(Sample(df, groups[n], "num_sessions")),
             num_page_views_mean |-> Mean(Sample(df, groups[n], "num_page_views")),
             num_popup_views_mean |-> Mean(Sample(df, groups[n], "num_popup_views"))]]

-----------------------------------------------------------------------------
(* Two-arm A/B module: calculate_ab_test_stats *)

\* control_group = 4  # Pure Control group
control_group == 4

\* range(1, 4): the test groups.
TestGroups == <<1, 2, 3>>

\* x > 0 for a float that may be NaN: NaN > 0 is False.
Positive(x) == notna(x) /\ x[1][1] > 0

\* (mutant) the lift without the guard on the control mean: a float
\* division by zero gives NaN or an infinity, never 0.
UnguardedLift(test_conv, control_conv) ==
    IF isna(test_conv) \/ isna(control_conv) \/ control_conv[1][1] = 0
    THEN None
    ELSE LET diff == RatSub(test_conv[1], control_conv[1])
         IN  Some(<<diff[1] * control_conv[1][2] * 100,
                    diff[2] * control_conv[1][1]>>)

\* (mutant) the lift with the difference taken the other way round.
InvertedLift(test_conv, control_conv) ==
    IF Positive(control_conv)
    THEN IF isna(test_conv) THEN None
         ELSE LET diff == RatSub(control_conv[1], test_conv[1])
              IN  Some(<<diff[1] * control_conv[1][2] * 100,
                         diff[2] * control_conv[1][1]>>)
    ELSE Some(<<0, 1>>)

\* ((test_conv - control_conv) / control_conv) * 100 if control_conv > 0
\* else 0.  With an empty test arm the quotient is NaN.
RelativeLift(test_conv, control_conv) ==
    IF Positive(control_conv)
    THEN IF isna(test_conv) THEN None
         ELSE LET diff == RatSub(test_conv[1], control_conv[1])
              IN  Some(<<diff[1] * control_conv[1][2] * 100,
                         diff[2] * control_conv[1][1]>>)
    ELSE Some(<<0, 1>>)

\* scipy.stats.ttest_ind(a, b) with the default equal_var=True: the p-value,
\* by what decides it.  The pooled test has len(a) + len(b) - 2 degrees of
\* freedom and is NaN when a side is empty or none is left.
StudentPValue(a, b) ==
    IF Len(a) = 0 \/ Len(b) = 0 \/ Len(a) + Len(b) < 3 THEN "nan"
    ELSE IF ZeroVariance(a) /\ ZeroVariance(b)
         THEN IF RatEq(Mean(a)[1], Mean(b)[1]) THEN "nan" ELSE "0"
    ELSE IF RatEq(Mean(a)[1], Mean(b)[1]) THEN "1"
    ELSE "between 0 and 1"

\* Series.var() (ddof=1) of a sample of integers: NaN below two values.
Var(sample) ==
    IF Len(sample) < 2 THEN None
    ELSE LET n == Len(sample)
             sum == SumOver([i \in Indices(sample) |-> sample[i][1]],
                            Indices(sample))
             squares == SumOver([i \in Indices(sample) |-> sample[i][1] * sample[i][1]],
                                Indices(sample))
         IN  Some(<<n * squares - sum * sum, n * (n - 1)>>)

\* effect_size = (test_conv - control_conv) / np.sqrt((var + var) / 2): a
\* square root, kept as its sign and its square.
EffectSize(control_data, test_data) ==
    IF isna(Var(control_data)) \/ isna(Var(test_data)) THEN [kind |-> "nan"]
    ELSE LET diff == RatSub(Mean(test_data)[1], Mean(control_data)[1])
             twice == RatAdd(Var(control_data)[1], Var(test_data)[1])
             sign == IF diff[1] * diff[2] > 0 THEN 1
                     ELSE IF diff[1] = 0 THEN 0 ELSE -1
         IN  IF twice[1] = 0
             THEN IF sign = 0 THEN [kind |-> "nan"] ELSE [kind |-> "inf"]
             ELSE [kind |-> "finite", sign |-> sign,
                   square |-> <<diff[1] * diff[1] * twice[2] * 2,
                                diff[2] * diff[2] * twice[1]>>]

\* An effect size that is a quotient, in the same form.
EffectOfQuotient(q) ==
    IF isna(q) THEN [kind |-> "nan"]
    ELSE [kind |-> "finite",
          sign |-> IF q[1][1] * q[1][2] > 0 THEN 1
                   ELSE IF q[1][1] = 0 THEN 0 ELSE -1,
          square |-> <<q[1][1] * q[1][1], q[1][2] * q[1][2]>>]

\* row['relative_lift'] / 100
LiftFraction(row) ==
    IF isna(row.relative_lift) THEN None
    ELSE Some(<<row.relative_lift[1][1], row.relative_lift[1][2] * 100>>)

\* The call TTestPower().solve_power(effect_size=row['relative_lift']/100,
\* power=0.8, alpha=0.05) for one row: the effect size it is given.
PowerInsight(row) ==
    [test_group |-> row.test_group,
     effect_size |-> EffectOfQuotient(LiftFraction(row)),
     current_n |-> IF row.control_sample_size < row.test_sample_size
                   THEN row.control_sample_size ELSE row.test_sample_size]

\* One row of test_results (the confidence intervals and the power, real
\* numbers, are left out; the power is a function of effect_size and of the
\* smaller sample size).
ABRow(df, test_group) ==
    LET control_data == Sample(df, control_group, "num_newsletter_signup")
        test_data == Sample(df, test_group, "num_newsletter_signup")
        control_conv == Mean(control_data)
        test_conv == Mean(test_data)
    IN  [test_group |-> test_group,
         control_conv_rate |-> control_conv,
         test_conv_rate |-> test_conv,
         relative_lift |-> RelativeLift(test_conv, control_conv),
         p_value |-> StudentPValue(control_data, test_data),
         effect_size |-> EffectSize(control_data, test_data),
         control_sample_size |-> Len(control_data),
         test_sample_size |-> Len(test_data)]

CalculateABTestStats(df) ==
    [n \in Indices(TestGroups) |-> ABRow(df, TestGroups[n])]

-----------------------------------------------------------------------------
(* Time-series module: analyze_user_types, analyze_time_series *)

DayMillis == 86400000

\* Series.dt.date: the UTC calendar day of a timestamp, as a day number.
DateOf(ts) == ts[1] \div DayMillis

FirstRowOf(t, u) == CHOOSE i \in RowsOf(t, u) : \A j \in RowsOf(t, u) : i <= j

\* 'referrer': lambda x: x.iloc[0] if not x.isna().all() else None
FirstReferrer(t, u) ==
    IF \A i \in RowsOf(t, u) : isna(t[i].referrer) THEN None
    ELSE t[FirstRowOf(t, u)].referrer

\* first_events['is_new_user'] = first_events['referrer'].notna()
is_new_user(t, u) == notna(FirstReferrer(t, u))

\* first_events of analyze_user_types: one record per visitor, in key order.
AnalyzeUserTypes(t) ==
    LET present == SelectSeq(UuidOrder, LAMBDA u : RowsOf(t, u) # {})
    IN  [n \in Indices(present) |->
            LET u == present[n]
                dated == {i \in RowsOf(t, u) : notna(t[i].timestamp)}
            IN  [uuid |-> u,
                 timestamp |-> MinTime(t, dated),
                 referrer |-> FirstReferrer(t, u),
                 random_group |-> t[FirstRowOf(t, u)].random_group,
                 is_new_user |-> is_new_user(t, u),
                 has_signup |-> \E i \in RowsOf(t, u) :
                                   t[i].event = "newsletter_signup"]]

\* The rows of daily_signups that groupby keeps: a NaT date is a null key
\* and its row is dropped.
DatedSignups(t) ==
    {i \in Indices(t) : t[i].event = "newsletter_signup" /\ notna(t[i].timestamp)}

\* groupby(['date', 'random_group', 'is_new_user']).size() at one key.
GroupSize(t, d, g, n) ==
    Cardinality({i \in DatedSignups(t) :
        /\ DateOf(t[i].timestamp) = d
        /\ t[i].random_group = Some(g)
        /\ is_new_user(t, t[i].uuid) = n})

\* pd.date_range(daily_counts['date'].min(), daily_counts['date'].max(),
\* freq='D').date
AllDates(t) ==
    LET days == {DateOf(t[i].timestamp) : i \in DatedSignups(t)}
        first == CHOOSE d \in days : \A e \in days : d <= e
        last == CHOOSE d \in days : \A e \in days : e <= d
    IN  [k \in 1..(last - first + 1) |-> first + k - 1]

\* Series.unique(): the values in order of first appearance.
RECURSIVE Unique(_)
Unique(col) ==
    IF col = <<>> THEN <<>>
    ELSE <<Head(col)>> \o Unique(SelectSeq(Tail(col), LAMBDA x : x # Head(col)))

\* all_groups = clean_tracker['random_group'].unique()
AllGroups(t) == Unique([i \in Indices(t) |-> t[i].random_group[1]])

UserTypes == <<TRUE, FALSE>>

\* pd.MultiIndex.from_product([all_dates, all_groups, user_types])
FromProduct(dates, groups, types) ==
    [n \in 1..(Len(dates) * Len(groups) * Len(types)) |->
        [date |-> dates[((n - 1) \div (Len(groups) * Len(types))) + 1],
         random_group |-> groups[(((n - 1) \div Len(types)) % Len(groups)) + 1],
         is_new_user |-> types[((n - 1) % Len(types)) + 1]]]

\* (mutant) no reindex: only the keys groupby produced.
GroupbyOnly(t, index) ==
    LET observed == SelectSeq(index, LAMBDA k :
                        GroupSize(t, k.date, k.random_group, k.is_new_user) > 0)
    IN  [n \in Indices(observed) |->
            [date |-> observed[n].date,
             random_group |-> observed[n].random_group,
             is_new_user |-> observed[n].is_new_user,
             signups |-> GroupSize(t, observed[n].date, observed[n].random_group,
                                   observed[n].is_new_user)]]

\* set_index(...).reindex(index, fill_value=0).reset_index(): a key that
\* groupby did not produce gets the fill value.
Reindex(t, index) ==
    [n \in Indices(index) |->
        [date |-> index[n].date,
         random_group |-> index[n].random_group,
         is_new_user |-> index[n].is_new_user,
         signups |-> GroupSize(t, index[n].date, index[n].random_group,
                               index[n].is_new_user)]]

\* daily_counts of analyze_time_series (date, random_group, is_new_user,
\* signups).  Without a dated signup, min() is NaN and pd.date_range raises;
\* the except clause returns pd.DataFrame().
AnalyzeTimeSeries(t) ==
    IF DatedSignups(t) = {} THEN <<>>
    ELSE Reindex(t, FromProduct(AllDates(t), AllGroups(t), UserTypes))

-----------------------------------------------------------------------------
(* Secondary-Log Correlator: merge_ip_data *)

\* tolerance=pd.Timedelta('1s'), in milliseconds.
Tolerance == 1000

\* DataFrame.sort_values('timestamp') on a column without nulls (rows with
\* equal timestamps keep their order).
RECURSIVE SortByTimestamp(_)
SortByTimestamp(df) ==
    IF df = <<>> THEN <<>>
    ELSE LET rest == SortByTimestamp(Tail(df))
             before == SelectSeq(rest, LAMBDA r :
                           r.timestamp[1] < Head(df).timestamp[1])
             after == SelectSeq(rest, LAMBDA r :
                           r.timestamp[1] >= Head(df).timestamp[1])
         IN  before \o <<Head(df)>> \o after

\* The backward match of merge_asof: the last right row at or before t, if
\* within the tolerance (0: no match).
AsofBackward(t, right) ==
    LET at_or_before == {j \in Indices(right) : right[j].timestamp[1] <= t}
        j == CHOOSE k \in at_or_before : \A l \in at_or_before : l <= k
    IN  IF at_or_before = {} THEN 0
        ELSE IF t - right[j].timestamp[1] > Tolerance THEN 0 ELSE j

\* The forward match: the first right row at or after t, if within the
\* tolerance.
AsofForward(t, right) ==
    LET at_or_after == {j \in Indices(right) : right[j].timestamp[1] >= t}
        j == CHOOSE k \in at_or_after : \A l \in at_or_after : k <= l
    IN  IF at_or_after = {} THEN 0
        ELSE IF right[j].timestamp[1] - t > Tolerance THEN 0 ELSE j

\* (mutant) direction='forward'.
ForwardOnly(t, right) == AsofForward(t, right)

\* direction='nearest': the closer of the backward and the forward match,
\* the backward one on a tie.
AsofNearest(t, right) ==
    LET b == AsofBackward(t, right)
        f == AsofForward(t, right)
    IN  IF b # 0 /\ f # 0
        THEN IF t - right[b].timestamp[1] <= right[f].timestamp[1] - t
             THEN b ELSE f
        ELSE IF b # 0 THEN b ELSE f

\* merged_data[['ip_address', 'uuid', 'random_group']]: the left rows in
\* order, ip_address null without a match.
MergeAsof(left, right) ==
    [i \in Indices(left) |->
        LET j == AsofNearest(left[i].timestamp[1], right)
        IN  [ip_address |-> IF j = 0 THEN None ELSE right[j].ip_address,
             uuid |-> left[i].uuid,
             random_group |-> left[i].random_group]]

EmptyMapping(columns) == [columns |-> columns, rows |-> <<>>]

\* merge_ip_data.  pd.merge_asof raises ValueError ("Merge keys contain
\* null values on left side") when a session_start has a NaT timestamp; the
\* except clause then returns an empty mapping.
MergeIpData(tracker, log) ==
    LET session_starts == SelectSeq(tracker, LAMBDA r : r.event = "session_start")
        ip_logs == SelectSeq(log, LAMBDA r : r.event_type = "ip_log")
    IN  IF tracker = <<>> \/ log = <<>>
        THEN EmptyMapping(<<"ip_address", "uuid">>)
        ELSE IF session_starts = <<>> \/ ip_logs = <<>>
        THEN EmptyMapping(<<"ip_address", "uuid">>)
        ELSE IF \E i \in Indices(session_starts) : isna(session_starts[i].timestamp)
        THEN EmptyMapping(<<"ip_address", "uuid", "random_group">>)
        ELSE LET merged == MergeAsof(SortByTimestamp(session_starts),
                                     SortByTimestamp(ip_logs))
                 matched == SelectSeq(merged, LAMBDA r :
                                notna(r.ip_address) /\ notna(r.random_group))
             IN  [columns |-> <<"ip_address", "uuid", "random_group">>,
                  rows |-> Unique(matched)]

-----------------------------------------------------------------------------
(* Geo lookup: get_location_from_ip, analyze_visitor_locations *)

\* What reader.city(ip) does: it returns a country, or it raises.
LookupErrors == {"AddressNotFoundError", "FileNotFoundError"}
LookupOutcomes == {"US", "FR"} \cup LookupErrors

UnknownLocation == [country |-> "Unknown", city |-> "Unknown"]

\* get_location_from_ip: both except clauses return the Unknown record.
GetLocationFromIp(db, ip_address) ==
    IF isna(ip_address) THEN UnknownLocation
    ELSE IF db[ip_address[1]] \in LookupErrors THEN UnknownLocation
    ELSE [country |-> db[ip_address[1]], city |-> "Unknown"]

\* Whether get_location_from_ip raises into the loop of
\* analyze_visitor_locations: its last clause is 'except Exception', which
\* returns.
GetLocationRaises(db, ip_address) == FALSE

\* location_data: one row per mapping row whose lookup did not raise.
LocationData(map_rows, db) ==
    LET located == SelectSeq(map_rows, LAMBDA r :
                       ~GetLocationRaises(db, r.ip_address))
    IN  [n \in Indices(located) |->
            [country |-> GetLocationFromIp(db, located[n].ip_address).country,
             city |-> GetLocationFromIp(db, located[n].ip_address).city,
             uuid |-> located[n].uuid,
             random_group |-> located[n].random_group]]

\* error_ips: (ip, error) for the mapping rows whose lookup raised.
ErrorIps(map_rows, db) ==
    LET failed == SelectSeq(map_rows, LAMBDA r :
                      GetLocationRaises(db, r.ip_address))
    IN  [n \in Indices(failed) |-> <<failed[n].ip_address, db[failed[n].ip_address[1]]>>]

\* all_groups = range(1, 5)
LocationGroups == <<1, 2, 3, 4>>

\* country_stats: a row per country of location_df and group 1..4 (the
\* rounded percentage is left out).
CountryStats(locations) ==
    LET countries == Unique([n \in Indices(locations) |-> locations[n].country])
    IN  [k \in 1..(Len(countries) * Len(LocationGroups)) |->
            LET country == countries[((k - 1) \div Len(LocationGroups)) + 1]
                group == LocationGroups[((k - 1) % Len(LocationGroups)) + 1]
            IN  [country |-> country,
                 random_group |-> group,
                 count |-> Cardinality({n \in Indices(locations) :
                               /\ locations[n].country = country
                               /\ locations[n].random_group = Some(group)})]]

-----------------------------------------------------------------------------
(* Demographic, screen and referral tables: analyze_demographics,          *)
(* analyze_screen_dimensions, analyze_referrals                            *)

\* groupby('uuid').agg({col: 'first'}): the visitor's first non-null cell.
FirstNonNull(t, u, col) ==
    LET valued == {i \in RowsOf(t, u) : notna(t[i][col])}
    IN  IF valued = {} THEN None
        ELSE t[CHOOSE i \in valued : \A j \in valued : i <= j][col]

\* clean_tracker[clean_tracker['event'] == 'session_start']
SessionData(t) == SelectSeq(t, LAMBDA r : r.event = "session_start")

\* The keys of a groupby in sorted order: capitals sort before small
\* letters.
PlatformOrder == <<"MacIntel", "Win32">>
SizeOrder == <<"Large", "Medium", "Small", "Unknown">>
CategoryOrder ==
    <<"Bing", "DuckDuckGo", "Facebook", "GitHub", "Google", "LinkedIn", "Other",
      "Reddit", "Twitter", "Yahoo", "direct">>
GroupOrder == <<1, 2, 3, 4>>

\* groupby([dim, 'random_group']).size().reset_index(name='count') on a
\* table of one record per visitor: a row per observed key; a null key is
\* dropped.
GroupbySize(data, dim, order) ==
    LET CountAt(v, g) ==
            Cardinality({n \in Indices(data) :
                data[n][dim] = Some(v) /\ data[n].random_group = Some(g)})
        keys == [k \in 1..(Len(order) * Len(GroupOrder)) |->
                    [value |-> order[((k - 1) \div Len(GroupOrder)) + 1],
                     random_group |-> GroupOrder[((k - 1) % Len(GroupOrder)) + 1]]]
        observed == SelectSeq(keys, LAMBDA k : CountAt(k.value, k.random_group) > 0)
    IN  [n \in Indices(observed) |->
            [value |-> observed[n].value,
             random_group |-> observed[n].random_group,
             count |-> CountAt(observed[n].value, observed[n].random_group)]]

\* demo_data: the first instance of the demographic data per visitor with a
\* session_start (platform stands for the four dimensions, which are
\* treated alike).
DemoData(t) ==
    LET session_data == SessionData(t)
        present == SelectSeq(UuidOrder, LAMBDA u : RowsOf(session_data, u) # {})
    IN  [n \in Indices(present) |->
            [uuid |-> present[n],
             random_group |-> FirstNonNull(session_data, present[n], "random_group"),
             platform |-> FirstNonNull(session_data, present[n], "platform")]]

\* stats['platform'] of analyze_demographics, without the percentage.
AnalyzeDemographics(t) == GroupbySize(DemoData(t), "platform", PlatformOrder)

\* (mutant) the thresholds taken as inclusive upper limits.
categorize_size_inclusive(width, height) ==
    IF isna(width) \/ isna(height) THEN "Unknown"
    ELSE LET area == width[1] * height[1]
         IN  IF area <= 1000000 THEN "Small"
             ELSE IF area <= 2000000 THEN "Medium"
             ELSE "Large"

\* categorize_size
categorize_size(width, height) ==
    IF isna(width) \/ isna(height) THEN "Unknown"
    ELSE LET area == width[1] * height[1]
         IN  IF area < 1000000 THEN "Small"
             ELSE IF area < 2000000 THEN "Medium"
             ELSE "Large"

\* screen_data with its two bucket columns.
ScreenData(t) ==
    LET session_data == SessionData(t)
        present == SelectSeq(UuidOrder, LAMBDA u : RowsOf(session_data, u) # {})
        First(u, col) == FirstNonNull(session_data, u, col)
    IN  [n \in Indices(present) |->
            [uuid |-> present[n],
             random_group |-> First(present[n], "random_group"),
             screen_size |-> Some(categorize_size(First(present[n], "screenWidth"),
                                                  First(present[n], "screenHeight"))),
             window_size |-> Some(categorize_size(First(present[n], "windowWidth"),
                                                  First(present[n], "windowHeight")))]]

\* The keys of the domains dict, in its order.
Domains ==
    <<[key |-> "google", value |-> "Google"],
      [key |-> "duckduckgo", value |-> "DuckDuckGo"],
      [key |-> "bing", value |-> "Bing"],
      [key |-> "yahoo", value |-> "Yahoo"],
      [key |-> "facebook", value |-> "Facebook"],
      [key |-> "twitter", value |-> "Twitter"],
      [key |-> "linkedin", value |-> "LinkedIn"],
      [key |-> "reddit", value |-> "Reddit"],
      [key |-> "github", value |-> "GitHub"]>>

\* extract_domain: the first key of the dict found in the lowered url.
extract_domain(url) ==
    IF isna(url) THEN "direct"
    ELSE LET hits == {k \in Indices(Domains) :
                         Contains(LowerUrl(url[1]), <<Domains[k].key>>)}
         IN  IF hits = {} THEN "Other"
             ELSE Domains[CHOOSE k \in hits : \A l \in hits : k <= l].value

\* referral_analysis: groupby(['uuid', 'random_group', 'referrer_category'])
\* .first(): one row per key observed among the referral events.
ReferralAnalysis(t) ==
    LET referral_data == SelectSeq(t, LAMBDA r : r.event = "referral")
        signed_up == {t[i].uuid : i \in {j \in Indices(t) :
                          t[j].event = "newsletter_signup"}}
        Observed(u, g, c) ==
            \E i \in Indices(referral_data) :
                /\ referral_data[i].uuid = u
                /\ referral_data[i].random_group = Some(g)
                /\ extract_domain(referral_data[i].referrer) = c
        nu == Len(UuidOrder)
        ng == Len(GroupOrder)
        nc == Len(CategoryOrder)
        keys == [k \in 1..(nu * ng * nc) |->
                    [uuid |-> UuidOrder[((k - 1) \div (ng * nc)) + 1],
                     random_group |-> GroupOrder[(((k - 1) \div nc) % ng) + 1],
                     referrer_category |-> CategoryOrder[((k - 1) % nc) + 1]]]
        observed == SelectSeq(keys, LAMBDA k :
                        Observed(k.uuid, k.random_group, k.referrer_category))
    IN  [n \in Indices(observed) |->
            [uuid |-> observed[n].uuid,
             random_group |-> observed[n].random_group,
             referrer_category |-> observed[n].referrer_category,
             has_signup |-> observed[n].uuid \in signed_up]]

\* sort_values('total_visits', ascending=False); rows with equal visits
\* keep their order.
RECURSIVE SortByVisits(_)
SortByVisits(stats) ==
    IF stats = <<>> THEN <<>>
    ELSE LET rest == SortByVisits(Tail(stats))
             more == SelectSeq(rest, LAMBDA r :
                         r.total_visits > Head(stats).total_visits)
             fewer == SelectSeq(rest, LAMBDA r :
                         r.total_visits <= Head(stats).total_visits)
         IN  more \o <<Head(stats)>> \o fewer

\* referral_stats of analyze_referrals (referrer_category, random_group,
\* total_visits, total_signups; the two rounded rates are left out).
AnalyzeReferrals(t) ==
    LET analysis == ReferralAnalysis(t)
        RowsAt(c, g) == {n \in Indices(analysis) :
                            /\ analysis[n].referrer_category = c
                            /\ analysis[n].random_group = g}
        ng == Len(GroupOrder)
        keys == [k \in 1..(Len(CategoryOrder) * ng) |->
                    [referrer_category |-> CategoryOrder[((k - 1) \div ng) + 1],
                     random_group |-> GroupOrder[((k - 1) % ng) + 1]]]
        observed == SelectSeq(keys, LAMBDA k :
                        RowsAt(k.referrer_category, k.random_group) # {})
    IN  SortByVisits(
            [n \in Indices(observed) |->
                LET rows == RowsAt(observed[n].referrer_category,
                                   observed[n].random_group)
                IN  [referrer_category |-> observed[n].referrer_category,
                     random_group |-> observed[n].random_group,
                     total_visits |-> Cardinality(rows),
                     total_signups |-> Cardinality({r \in rows :
                                           analysis[r].has_signup})]])

-----------------------------------------------------------------------------
(* The script: app.py / streamlit_app.py, top level *)

\* The variables a run leaves untouched start, and stay, empty.
NoPipeline ==
    /\ response_text = <<>>
    /\ status_code = 0
    /\ clean_tracker = <<>>
    /\ selected_standard_group = ""
    /\ selected_clean_tracker = <<>>

NoBalance == group_stats = <<>> /\ pairwise_results = <<>>

NoDatetime == datetime_input = <<>> /\ df_col = <<>> /\ mean_col = <<>>

NoAB == ab_test_results = <<>> /\ power_insights = <<>>

NoSeries == daily_counts = <<>>

NoIP == error_log_df = <<>> /\ ip_uuid_map = <<>>

NoGeo ==
    /\ geo_db = <<>>
    /\ location_df = <<>>
    /\ country_stats = <<>>
    /\ error_ips = <<>>

NoAnalysis == NoGeo /\ user_type_data = <<>> /\ dimension_stats = <<>>

Init ==
    /\ NoPipeline
    /\ pc = "log"
    /\ error = "none"
    /\ uuid_tracker = <<>>
    /\ NoBalance
    /\ NoDatetime
    /\ NoAB
    /\ NoSeries
    /\ NoIP
    /\ NoAnalysis

\* The tracker appends one event line to the log.
AppendLine(alphabet) ==
    /\ pc = "log"
    /\ Len(response_text) < MaxLines
    /\ \E l \in alphabet : response_text' = Append(response_text, l)
    /\ UNCHANGED <<status_code, pc, error, clean_tracker,
                   selected_standard_group, selected_clean_tracker,
                   uuid_tracker, componentVars>>

\* (mutant) the fetch without the test of the status code.
fetch_any_status ==
    /\ pc = "log"
    /\ \E code \in {200, 503} :
        /\ status_code' = code
        /\ IF JsonLoadsRaises(response_text)
           THEN /\ pc' = "failed"
                /\ error' = "JSONDecodeError"
                /\ UNCHANGED clean_tracker
           ELSE IF response_text = <<>>
           THEN /\ pc' = "failed"
                /\ error' = "KeyError"
                /\ UNCHANGED clean_tracker
           ELSE /\ pc' = "fetched"
                /\ error' = "none"
                /\ clean_tracker' = Normalize(response_text)
    /\ UNCHANGED <<response_text, selected_standard_group, selected_clean_tracker,
                   uuid_tracker, componentVars>>

fetch_and_process_data ==
    /\ pc = "log"
    /\ \E code \in {200, 503} :
        /\ status_code' = code
        /\ IF code # 200
           THEN /\ pc' = "failed"
                /\ error' = "HTTPError"
                /\ UNCHANGED clean_tracker
           ELSE IF JsonLoadsRaises(response_text)
           THEN /\ pc' = "failed"
                /\ error' = "JSONDecodeError"
                /\ UNCHANGED clean_tracker
           ELSE IF response_text = <<>>
           THEN \* pd.DataFrame([]) has no 'timestamp' column (line 59)
                /\ pc' = "failed"
                /\ error' = "KeyError"
                /\ UNCHANGED clean_tracker
           ELSE /\ pc' = "fetched"
                /\ error' = "none"
                /\ clean_tracker' = Normalize(response_text)
    /\ UNCHANGED <<response_text, selected_standard_group, selected_clean_tracker,
                   uuid_tracker, componentVars>>

process_clean_tracker ==
    /\ pc = "fetched"
    /\ clean_tracker' = ProcessCleanTracker(clean_tracker)
    /\ pc' = "processed"
    /\ UNCHANGED <<response_text, status_code, error,
                   selected_standard_group, selected_clean_tracker,
                   uuid_tracker, componentVars>>

drop_unresolved ==
    /\ pc = "processed"
    /\ clean_tracker' = DropUnresolved(clean_tracker)
    /\ pc' = "resolved"
    /\ UNCHANGED <<response_text, status_code, error,
                   selected_standard_group, selected_clean_tracker,
                   uuid_tracker, componentVars>>

\* st.selectbox over clean_tracker['standard_group'].unique(), then
\* clean_tracker[clean_tracker['standard_group'] == selected_standard_group].
\* The run with no resolved row is not followed further.
select_standard_group ==
    /\ pc = "resolved"
    /\ clean_tracker # <<>>
    /\ \E v \in {clean_tracker[i].standard_group : i \in Indices(clean_tracker)} :
        /\ selected_standard_group' = v
        /\ selected_clean_tracker' =
              SelectSeq(clean_tracker, LAMBDA r : r.standard_group = v)
    /\ pc' = "selected"
    /\ UNCHANGED <<response_text, status_code, error, clean_tracker,
                   uuid_tracker, componentVars>>

process_event_data ==
    /\ pc = "selected"
    /\ uuid_tracker' = ProcessEventData(selected_clean_tracker)
    /\ pc' = "aggregated"
    /\ UNCHANGED <<error, pipelineVars, componentVars>>

Next ==
    \/ AppendLine(ResolverLines)
    \/ fetch_and_process_data
    \/ process_clean_tracker
    \/ drop_unresolved

Spec == Init /\ [][Next]_vars

\* The same script over logs that exercise the aggregator.
NextAggregate ==
    \/ AppendLine(AggregatorLines)
    \/ fetch_and_process_data
    \/ process_clean_tracker
    \/ drop_unresolved
    \/ select_standard_group
    \/ process_event_data

SpecAggregate == Init /\ [][NextAggregate]_vars

-----------------------------------------------------------------------------
(* The datetime conversions on a column of their own *)

\* Instants around the epoch, with and without a sub-second part.
TimestampCells ==
    {None, Some(0 - 86400500), Some(0 - 1500), Some(0 - 1000), Some(0 - 1),
     Some(0), Some(999), Some(1000), Some(86400500)}

ColumnsOf(cells) ==
    UNION {[1..n -> cells] : n \in 1..MaxColumn}

\* A session-time column of the visitor table: timestamps parsed with
\* utc=True, so the column is tz-aware.
InitDatetime ==
    /\ NoPipeline
    /\ pc = "datetime"
    /\ error = "none"
    /\ uuid_tracker = <<>>
    /\ NoBalance
    /\ datetime_input \in
          {[tz |-> "UTC", cells |-> c] : c \in ColumnsOf(TimestampCells)}
    /\ df_col = datetime_input
    /\ mean_col = <<>>
    /\ NoAB
    /\ NoSeries
    /\ NoIP
    /\ NoAnalysis

datetime_to_numeric ==
    /\ pc = "datetime"
    /\ IF DatetimeToNumericRaises(df_col)
       THEN /\ pc' = "failed"
            /\ error' = "TypeError"
            /\ UNCHANGED df_col
       ELSE /\ pc' = "numeric"
            /\ df_col' = DatetimeToNumeric(df_col)
            /\ UNCHANGED error
    /\ UNCHANGED <<pipelineVars, uuid_tracker, balanceVars, abVars, seriesVars, ipVars, analysisVars,
                   datetime_input, mean_col>>

\* numeric_df.groupby('random_group').agg(['mean', 'std']), with every
\* visitor in a group of its own: the mean of a group is its one number.
group_mean ==
    /\ pc = "numeric"
    /\ mean_col' = df_col
    /\ pc' = "stats"
    /\ UNCHANGED <<error, pipelineVars, uuid_tracker, balanceVars, abVars, seriesVars, ipVars, analysisVars,
                   datetime_input, df_col>>

convert_datetime_back ==
    /\ pc = "stats"
    /\ mean_col' = ConvertDatetimeBack(mean_col)
    /\ pc' = "converted_back"
    /\ UNCHANGED <<error, pipelineVars, uuid_tracker, balanceVars, abVars, seriesVars, ipVars, analysisVars,
                   datetime_input, df_col>>

\* datetime_to_numeric applied to the column convert_datetime_back produced.
datetime_to_numeric_again ==
    /\ pc = "converted_back"
    /\ IF DatetimeToNumericRaises(mean_col)
       THEN /\ pc' = "failed"
            /\ error' = "TypeError"
            /\ UNCHANGED mean_col
       ELSE /\ pc' = "numeric_again"
            /\ mean_col' = DatetimeToNumeric(mean_col)
            /\ UNCHANGED error
    /\ UNCHANGED <<pipelineVars, uuid_tracker, balanceVars, abVars, seriesVars, ipVars, analysisVars,
                   datetime_input, df_col>>

NextDatetime ==
    \/ datetime_to_numeric
    \/ group_mean
    \/ convert_datetime_back
    \/ datetime_to_numeric_again

SpecDatetime == InitDatetime /\ [][NextDatetime]_vars

-----------------------------------------------------------------------------
(* The balance tables on visitor tables of their own *)

\* The experiment's groups (app.py:16-19).
Groups == 1..4

\* A visitor with one session at instant ts, or with none (NaT).
BalanceVisitor(u, g, ts) ==
    [uuid |-> u,
     random_group |-> Some(g),
     num_sessions |-> IF isna(ts) THEN 0 ELSE 1,
     num_page_views |-> 0,
     num_popup_views |-> 0,
     num_referral |-> 0,
     num_newsletter_signup |-> 0,
     num_donation |-> 0,
     first_session_start_time |-> ts,
     average_session_start_time |-> ts,
     last_session_start_time |-> ts,
     homepage_pct |-> None,
     view_about |-> 0,
     view_news |-> 0]

VisitorTables ==
    UNION { { [i \in 1..n |-> BalanceVisitor(UuidOrder[i], g[i], ts[i])] :
                g \in [1..n -> Groups],
                ts \in [1..n -> {None, Some(1000), Some(2500)}] } :
            n \in 1..MaxVisitors }

InitBalance ==
    /\ NoPipeline
    /\ pc = "aggregated"
    /\ error = "none"
    /\ uuid_tracker \in VisitorTables
    /\ NoBalance
    /\ NoDatetime
    /\ NoAB
    /\ NoSeries
    /\ NoIP
    /\ NoAnalysis

\* streamlit_app.py:319: datetime_to_numeric changes df, the caller's table,
\* in place.
gen_output_tables ==
    /\ pc = "aggregated"
    /\ LET df == DatetimeToNumericTable(uuid_tracker)
       IN  /\ uuid_tracker' = df
           /\ group_stats' = GroupStats(df)
           /\ pairwise_results' = PairwiseTTests(df)
    /\ pc' = "balance_tables"
    /\ UNCHANGED <<error, pipelineVars, datetimeVars, abVars,
                   seriesVars, ipVars, analysisVars>>

\* app.py:443: utils.gen_output_tables.
gen_output_tables_app ==
    /\ pc = "aggregated"
    /\ group_stats' = GroupStatsApp(uuid_tracker)
    /\ pairwise_results' = PairwiseDiffs(uuid_tracker)
    /\ pc' = "balance_tables_app"
    /\ UNCHANGED <<error, pipelineVars, uuid_tracker, datetimeVars, abVars,
                   seriesVars, ipVars, analysisVars>>

NextBalance ==
    \/ gen_output_tables
    \/ gen_output_tables_app

SpecBalance == InitBalance /\ [][NextBalance]_vars

\* The columns of clean_tracker in streamlit_app.py: those fetch renames the
\* selection to (line 31) and the two process_clean_tracker adds.
TrackerColumns ==
    {"timestamp", "uuid", "event", "group", "url", "sessionCount", "referrer",
     "standard_group", "random_group"}

\* draw_popup_bar_charts evaluates clean_tracker['data.group'] before
\* anything else: KeyError unless the table has a column of that name.
DrawPopupBarChartsRaises == "data.group" \notin TrackerColumns

\* streamlit_app.py:317-321: draw_streamlit_bar, draw_popup_bar_charts and
\* gen_output_tables, in this order; an exception ends the run of the script.
balance_check_page ==
    /\ pc = "aggregated"
    /\ IF DrawPopupBarChartsRaises
       THEN /\ pc' = "failed"
            /\ error' = "KeyError"
            /\ UNCHANGED <<uuid_tracker, balanceVars>>
       ELSE /\ LET df == DatetimeToNumericTable(uuid_tracker)
               IN  /\ uuid_tracker' = df
                   /\ group_stats' = GroupStats(df)
                   /\ pairwise_results' = PairwiseTTests(df)
            /\ pc' = "balance_tables"
            /\ UNCHANGED error
    /\ UNCHANGED <<pipelineVars, datetimeVars, abVars,
                   seriesVars, ipVars, analysisVars>>

NextStreamlit ==
    \/ AppendLine(AggregatorLines)
    \/ fetch_and_process_data
    \/ process_clean_tracker
    \/ drop_unresolved
    \/ select_standard_group
    \/ process_event_data
    \/ balance_check_page

\* A run of the script executes its statements one after the other until it
\* ends or raises.
SpecStreamlit ==
    /\ Init
    /\ [][NextStreamlit]_vars
    /\ WF_vars(fetch_and_process_data)
    /\ WF_vars(process_clean_tracker)
    /\ WF_vars(drop_unresolved)
    /\ WF_vars(select_standard_group)
    /\ WF_vars(process_event_data)
    /\ WF_vars(balance_check_page)

-----------------------------------------------------------------------------
(* The A/B module on visitor tables of its own *)

\* A visitor of group g with the given number of newsletter signups.
ABVisitor(u, g, signups) ==
    [uuid |-> u, random_group |-> Some(g), num_newsletter_signup |-> signups]

\* The visitors of one arm: zeros visitors without a signup, then ones
\* visitors with one signup.
Arm(g, zeros, ones) ==
    [i \in 1..(zeros + ones) |->
        ABVisitor(<<g, i>>, g, IF i <= zeros THEN 0 ELSE 1)]

\* Arms of up to MaxArm visitors with and MaxArm without a signup; group 3
\* is absent or holds one visitor.
ABTables ==
    { Arm(1, z[1], o[1]) \o Arm(2, z[2], o[2]) \o Arm(3, z[3], o[3])
        \o Arm(4, z[4], o[4]) :
        z \in {f \in [Groups -> 0..MaxArm] : f[3] <= 1},
        o \in {f \in [Groups -> 0..MaxArm] : f[3] = 0} }

InitAB ==
    /\ NoPipeline
    /\ pc = "aggregated"
    /\ error = "none"
    /\ uuid_tracker \in ABTables
    /\ NoBalance
    /\ NoDatetime
    /\ NoAB
    /\ NoSeries
    /\ NoIP
    /\ NoAnalysis

calculate_ab_test_stats ==
    /\ pc = "aggregated"
    /\ ab_test_results' = CalculateABTestStats(uuid_tracker)
    /\ pc' = "ab_test"
    /\ UNCHANGED <<error, pipelineVars, uuid_tracker, balanceVars, datetimeVars,
                   power_insights,
                   seriesVars, ipVars, analysisVars>>

\* A later rerun of the script with the same table.
rerun ==
    /\ pc = "ab_test"
    /\ pc' = "aggregated"
    /\ ab_test_results' = <<>>
    /\ UNCHANGED <<error, pipelineVars, uuid_tracker, balanceVars, datetimeVars,
                   power_insights,
                   seriesVars, ipVars, analysisVars>>

NextAB ==
    \/ calculate_ab_test_stats
    \/ rerun

SpecAB == InitAB /\ [][NextAB]_vars

\* Tables of a test arm (group 1) and the control arm only.
PowerTables ==
    { Arm(1, z[1], o[1]) \o Arm(control_group, z[2], o[2]) :
        z \in [1..2 -> 0..MaxArm], o \in [1..2 -> 0..MaxArm] }

InitPower ==
    /\ NoPipeline
    /\ pc = "aggregated"
    /\ error = "none"
    /\ uuid_tracker \in PowerTables
    /\ NoBalance
    /\ NoDatetime
    /\ NoAB
    /\ NoSeries
    /\ NoIP
    /\ NoAnalysis

\* app.py:536-548.  The power of a row is a real number the model does not
\* compute: a row with a finite effect size may or may not be below 0.8 (a
\* NaN power is not below 0.8).
power_analysis ==
    /\ pc = "ab_test"
    /\ \E low \in [Indices(ab_test_results) -> BOOLEAN] :
          /\ \A n \in Indices(ab_test_results) :
                low[n] => ab_test_results[n].effect_size.kind = "finite"
          /\ LET rows == SelectSeq([n \in Indices(ab_test_results) |-> n],
                                   LAMBDA n : low[n])
             IN  power_insights' =
                     [k \in Indices(rows) |-> PowerInsight(ab_test_results[rows[k]])]
    /\ pc' = "power_analysis"
    /\ UNCHANGED <<error, pipelineVars, uuid_tracker, balanceVars, datetimeVars,
                   ab_test_results, seriesVars, ipVars, analysisVars>>

rerun_power ==
    /\ pc = "power_analysis"
    /\ pc' = "aggregated"
    /\ ab_test_results' = <<>>
    /\ power_insights' = <<>>
    /\ UNCHANGED <<error, pipelineVars, uuid_tracker, balanceVars, datetimeVars,
                   seriesVars, ipVars, analysisVars>>

NextPower ==
    \/ calculate_ab_test_stats
    \/ power_analysis
    \/ rerun_power

SpecPower == InitPower /\ [][NextPower]_vars

-----------------------------------------------------------------------------
(* The time-series module on partitions of its own *)

SeriesRow(u, e, g, ts, ref) ==
    [uuid |-> u, event |-> e, standard_group |-> "group_v1",
     random_group |-> Some(g), timestamp |-> ts, referrer |-> ref]

\* Signups without a timestamp, on day 0 and on day 2; page views with and
\* without a referrer.
SeriesRows ==
    { SeriesRow(u, "newsletter_signup", g, ts, None) :
        u \in Uuids, g \in {1, 2},
        ts \in {None, Some(3600000), Some(2 * DayMillis + 1)} }
    \cup { SeriesRow(u, "page_view", g, Some(1000), ref) :
        u \in Uuids, g \in {1, 2}, ref \in {None, Some("newsletter")} }

Partitions == UNION { [1..n -> SeriesRows] : n \in 0..MaxRows }

InitSeries ==
    /\ response_text = <<>>
    /\ status_code = 0
    /\ pc = "selected"
    /\ error = "none"
    /\ clean_tracker \in Partitions
    /\ selected_standard_group = "group_v1"
    /\ selected_clean_tracker = clean_tracker
    /\ uuid_tracker = <<>>
    /\ NoBalance
    /\ NoDatetime
    /\ NoAB
    /\ NoSeries
    /\ NoIP
    /\ NoAnalysis

analyze_time_series ==
    /\ pc = "selected"
    /\ daily_counts' = AnalyzeTimeSeries(selected_clean_tracker)
    /\ pc' = "time_series"
    /\ UNCHANGED <<error, pipelineVars, uuid_tracker, balanceVars, datetimeVars,
                   abVars, ipVars, analysisVars>>

\* A later rerun of the script with the same partition.
rerun_series ==
    /\ pc = "time_series"
    /\ pc' = "selected"
    /\ daily_counts' = <<>>
    /\ UNCHANGED <<error, pipelineVars, uuid_tracker, balanceVars, datetimeVars,
                   abVars, ipVars, analysisVars>>

NextSeries ==
    \/ analyze_time_series
    \/ rerun_series

SpecSeries == InitSeries /\ [][NextSeries]_vars

\* app.py:453
analyze_user_types ==
    /\ pc = "selected"
    /\ user_type_data' = AnalyzeUserTypes(selected_clean_tracker)
    /\ pc' = "user_types"
    /\ UNCHANGED <<error, pipelineVars, uuid_tracker, balanceVars, datetimeVars,
                   abVars, seriesVars, ipVars, geoVars, dimension_stats>>

rerun_user_types ==
    /\ pc = "user_types"
    /\ pc' = "selected"
    /\ user_type_data' = <<>>
    /\ UNCHANGED <<error, pipelineVars, uuid_tracker, balanceVars, datetimeVars,
                   abVars, seriesVars, ipVars, geoVars, dimension_stats>>

NextUserTypes ==
    \/ analyze_user_types
    \/ rerun_user_types

SpecUserTypes == InitSeries /\ [][NextUserTypes]_vars

-----------------------------------------------------------------------------
(* The correlator on tracker tables and secondary logs of its own *)

TrackerRow(u, e, g, ts) ==
    [uuid |-> u, event |-> e, standard_group |-> "group_v1",
     random_group |-> Some(g), timestamp |-> ts]

\* Session starts without a timestamp and 1.1 s, 1.0 s and 0.9 s before the
\* log entry of second 2; a page view.
TrackerRows ==
    { TrackerRow(u, "session_start", 1, ts) :
        u \in Uuids, ts \in {None, Some(900), Some(1000), Some(1100)} }
    \cup { TrackerRow(u, "page_view", 1, Some(2000)) : u \in Uuids }

TrackerTables == UNION { [1..n -> TrackerRows] : n \in 0..MaxEvents }

\* parse_error_log: entries at whole seconds, never without a timestamp.
LogEntries ==
    { [timestamp |-> Some(ts), ip_address |-> Some(ip), event_type |-> "ip_log"] :
        ts \in {1000, 2000}, ip \in {"10.0.0.1", "10.0.0.2"} }
    \cup { [timestamp |-> Some(2000), ip_address |-> None,
            event_type |-> "email_capture"] }

ErrorLogs == UNION { [1..n -> LogEntries] : n \in 0..MaxLogEntries }

InitIP ==
    /\ response_text = <<>>
    /\ status_code = 0
    /\ pc = "resolved"
    /\ error = "none"
    /\ clean_tracker \in TrackerTables
    /\ selected_standard_group = ""
    /\ selected_clean_tracker = <<>>
    /\ uuid_tracker = <<>>
    /\ NoBalance
    /\ NoDatetime
    /\ NoAB
    /\ NoSeries
    /\ error_log_df \in ErrorLogs
    /\ ip_uuid_map = <<>>
    /\ NoAnalysis

merge_ip_data ==
    /\ pc = "resolved"
    /\ ip_uuid_map' = MergeIpData(clean_tracker, error_log_df)
    /\ pc' = "ip_merged"
    /\ UNCHANGED <<error, pipelineVars, uuid_tracker, balanceVars, datetimeVars,
                   abVars, seriesVars, error_log_df, analysisVars>>

\* A later rerun of the script with the same two logs.
rerun_merge ==
    /\ pc = "ip_merged"
    /\ pc' = "resolved"
    /\ ip_uuid_map' = <<>>
    /\ UNCHANGED <<error, pipelineVars, uuid_tracker, balanceVars, datetimeVars,
                   abVars, seriesVars, error_log_df, analysisVars>>

NextIP ==
    \/ merge_ip_data
    \/ rerun_merge

SpecIP == InitIP /\ [][NextIP]_vars

-----------------------------------------------------------------------------
(* The location analysis on mappings of its own *)

Ips == {"10.0.0.1", "10.0.0.2"}

MappingRows ==
    { [ip_address |-> Some(ip), uuid |-> u, random_group |-> Some(g)] :
        ip \in Ips, u \in Uuids, g \in {1, 2} }

\* Mappings as merge_ip_data leaves them: not empty here (app.py:369), and
\* without duplicate rows.
Mappings ==
    { m \in UNION { [1..n -> MappingRows] : n \in 1..MaxMappings } :
        \A i, j \in Indices(m) : i # j => m[i] # m[j] }

InitGeo ==
    /\ NoPipeline
    /\ pc = "ip_merged"
    /\ error = "none"
    /\ uuid_tracker = <<>>
    /\ NoBalance
    /\ NoDatetime
    /\ NoAB
    /\ NoSeries
    /\ error_log_df = <<>>
    /\ \E m \in Mappings :
          ip_uuid_map = [columns |-> <<"ip_address", "uuid", "random_group">>,
                         rows |-> m]
    /\ geo_db \in [Ips -> LookupOutcomes]
    /\ location_df = <<>>
    /\ country_stats = <<>>
    /\ error_ips = <<>>
    /\ user_type_data = <<>>
    /\ dimension_stats = <<>>

analyze_visitor_locations ==
    /\ pc = "ip_merged"
    /\ ip_uuid_map.rows # <<>>
    /\ location_df' = LocationData(ip_uuid_map.rows, geo_db)
    /\ country_stats' = CountryStats(location_df')
    /\ error_ips' = ErrorIps(ip_uuid_map.rows, geo_db)
    /\ pc' = "located"
    /\ UNCHANGED <<error, pipelineVars, uuid_tracker, balanceVars, datetimeVars,
                   abVars, seriesVars, ipVars, geo_db, user_type_data,
                   dimension_stats>>

\* A later rerun of the script with the same mapping and database.
rerun_locations ==
    /\ pc = "located"
    /\ pc' = "ip_merged"
    /\ location_df' = <<>>
    /\ country_stats' = <<>>
    /\ error_ips' = <<>>
    /\ UNCHANGED <<error, pipelineVars, uuid_tracker, balanceVars, datetimeVars,
                   abVars, seriesVars, ipVars, geo_db, user_type_data,
                   dimension_stats>>

NextGeo ==
    \/ analyze_visitor_locations
    \/ rerun_locations

SpecGeo == InitGeo /\ [][NextGeo]_vars

-----------------------------------------------------------------------------
(* The demographic, screen and referral tables on partitions of their own *)

DimRow(u, e, g, ref, platform, screen, window) ==
    [uuid |-> u, event |-> e, standard_group |-> "group_v1",
     random_group |-> Some(g), referrer |-> ref, platform |-> platform,
     screenWidth |-> screen[1], screenHeight |-> screen[2],
     windowWidth |-> window[1], windowHeight |-> window[2]]

NoSize == <<None, None>>

GOOGLE_URL == <<"https://www.", "google", ".com/">>
BING_URL == <<"https://www.", "bing", ".com/">>

\* Visitor a in group 1, visitor b in group 1 or 2.
DimVisitors == {<<"a", 1>>, <<"b", 1>>, <<"b", 2>>}

DimensionRows ==
    { DimRow(u, "referral", 1, ref, None, NoSize, NoSize) :
        u \in Uuids, ref \in {None, Some(GOOGLE_URL), Some(BING_URL)} }
    \cup { DimRow(v[1], "session_start", v[2], None, d[1], d[2], NoSize) :
        v \in DimVisitors,
        d \in { <<None, NoSize>>,
                <<Some("Win32"), <<Some(800), Some(600)>>>>,
                <<Some("MacIntel"), <<Some(1920), Some(1080)>>>> } }
    \cup { DimRow("a", "newsletter_signup", 1, None, None, NoSize, NoSize) }

DimensionTables == UNION { [1..n -> DimensionRows] : n \in 0..MaxDimRows }

NoDimensionStats ==
    [demographic_stats |-> <<>>, screen_stats |-> <<>>, window_stats |-> <<>>,
     referral_stats |-> <<>>]

InitTables(tables) ==
    /\ response_text = <<>>
    /\ status_code = 0
    /\ pc = "selected"
    /\ error = "none"
    /\ clean_tracker \in tables
    /\ selected_standard_group = "group_v1"
    /\ selected_clean_tracker = clean_tracker
    /\ uuid_tracker = <<>>
    /\ NoBalance
    /\ NoDatetime
    /\ NoAB
    /\ NoSeries
    /\ NoIP
    /\ NoGeo
    /\ user_type_data = <<>>
    /\ dimension_stats = NoDimensionStats

InitDimensions == InitTables(DimensionTables)

\* app.py:89
analyze_demographics ==
    /\ pc = "selected"
    /\ dimension_stats' =
          [dimension_stats EXCEPT
              !.demographic_stats = AnalyzeDemographics(selected_clean_tracker)]
    /\ pc' = "demographics"
    /\ UNCHANGED <<error, pipelineVars, uuid_tracker, balanceVars, datetimeVars,
                   abVars, seriesVars, ipVars, geoVars, user_type_data>>

\* app.py:129.  Without a session_start, screen_data.apply(..., axis=1)
\* returns an empty DataFrame, and assigning it to the column 'screen_size'
\* raises ValueError or yields an empty column, by the version of pandas.
analyze_screen_dimensions ==
    /\ pc = "demographics"
    /\ \/ /\ LET screen_data == ScreenData(selected_clean_tracker)
             IN  dimension_stats' =
                   [dimension_stats EXCEPT
                     !.screen_stats = GroupbySize(screen_data, "screen_size", SizeOrder),
                     !.window_stats = GroupbySize(screen_data, "window_size", SizeOrder)]
          /\ pc' = "screens"
          /\ UNCHANGED error
       \/ /\ SessionData(selected_clean_tracker) = <<>>
          /\ pc' = "failed"
          /\ error' = "ValueError"
          /\ UNCHANGED dimension_stats
    /\ UNCHANGED <<pipelineVars, uuid_tracker, balanceVars, datetimeVars,
                   abVars, seriesVars, ipVars, geoVars, user_type_data>>

\* app.py:179
analyze_referrals ==
    /\ pc = "screens"
    /\ dimension_stats' =
          [dimension_stats EXCEPT
              !.referral_stats = AnalyzeReferrals(selected_clean_tracker)]
    /\ pc' = "referrals"
    /\ UNCHANGED <<error, pipelineVars, uuid_tracker, balanceVars, datetimeVars,
                   abVars, seriesVars, ipVars, geoVars, user_type_data>>

\* A later rerun of the script with the same partition.
rerun_dimensions ==
    /\ pc = "referrals"
    /\ pc' = "selected"
    /\ dimension_stats' = NoDimensionStats
    /\ UNCHANGED <<error, pipelineVars, uuid_tracker, balanceVars, datetimeVars,
                   abVars, seriesVars, ipVars, geoVars, user_type_data>>

NextDimensions ==
    \/ analyze_demographics
    \/ analyze_screen_dimensions
    \/ analyze_referrals
    \/ rerun_dimensions

SpecDimensions == InitDimensions /\ [][NextDimensions]_vars

\* Widths and heights around the two thresholds.
SizeCells ==
    {None, Some(0), Some(1), Some(999), Some(1000), Some(1001), Some(1999),
     Some(2000), Some(2001)}

\* One or two visitors, each with one session_start.
ScreenTables ==
    { <<DimRow("a", "session_start", 1, None, None, <<sw, sh>>, w)>> \o rest :
        sw \in SizeCells, sh \in SizeCells,
        w \in { NoSize, <<Some(1000), Some(1000)>>, <<Some(1), Some(999999)>>,
                <<Some(1920), Some(1080)>> },
        rest \in { <<>>,
                   <<DimRow("b", "session_start", 2, None, None,
                            <<Some(1280), Some(1024)>>, NoSize)>> } }

InitScreen == InitTables(ScreenTables)

SpecScreen == InitScreen /\ [][NextDimensions]_vars

-----------------------------------------------------------------------------
(* Claims about the group resolver and the normalizer (Spec) *)

SamePartition(r, q) ==
    r.uuid = q.uuid /\ r.standard_group = q.standard_group

\* The raw group values observed in r's partition do not conflict.
NoConflict(t, r) ==
    \A k, l \in Indices(t) :
        (SamePartition(t[k], r) /\ SamePartition(t[l], r)
            /\ notna(t[k].group) /\ notna(t[l].group))
        => t[k].group = t[l].group

\* C1 as stated: after process_clean_tracker and the unresolved-row filter,
\* for every log, every retained row has a non-null assigned group and all
\* retained rows of one visitor within one experiment version carry one
\* identical assigned group.
C1_OneGroupPerPartition_AsStated ==
    pc = "resolved" =>
        /\ \A i \in Indices(clean_tracker) : notna(clean_tracker[i].random_group)
        /\ \A i, j \in Indices(clean_tracker) :
              SamePartition(clean_tracker[i], clean_tracker[j])
              => clean_tracker[i].random_group = clean_tracker[j].random_group

\* C1 (amended): after process_clean_tracker and the unresolved-row filter,
\* every retained row has a non-null assigned group, and all retained rows of
\* one visitor within one experiment version carry one identical assigned
\* group whenever the non-null raw group values of that partition are all
\* equal, wherever in the log the assignment events appear.
C1_OneGroupPerPartition ==
    pc = "resolved" =>
        /\ \A i \in Indices(clean_tracker) : notna(clean_tracker[i].random_group)
        /\ \A i, j \in Indices(clean_tracker) :
              (SamePartition(clean_tracker[i], clean_tracker[j])
                  /\ NoConflict(clean_tracker, clean_tracker[i]))
              => clean_tracker[i].random_group = clean_tracker[j].random_group

\* A resolved partition whose assignment event arrives after a behavioural
\* event of the same visitor: the earlier row was filled backward.
C1_Witness ==
    /\ pc = "resolved"
    /\ \E i, j \in Indices(clean_tracker) :
          /\ i < j
          /\ SamePartition(clean_tracker[i], clean_tracker[j])
          /\ isna(clean_tracker[i].group)
          /\ notna(clean_tracker[j].group)
          /\ clean_tracker[i].random_group = clean_tracker[j].group

\* The rows a normalizer that drops unparseable lines would return.
RowsOfWellFormedLines(text) == Normalize(SelectSeq(text, LAMBDA l : l.parses))

\* C10: when the fetched log (HTTP 200) holds a line that is not parseable
\* next to well-formed lines, the normalizer does not fail: it drops the
\* unparseable line and returns a row for every well-formed line.
C10_MalformedLineDropped ==
    (/\ pc \in {"fetched", "failed"}
     /\ status_code = 200
     /\ \E i \in Indices(response_text) : ~response_text[i].parses
     /\ \E i \in Indices(response_text) : response_text[i].parses) =>
        /\ pc = "fetched"
        /\ clean_tracker = RowsOfWellFormedLines(response_text)

-----------------------------------------------------------------------------
(* Claims about the visitor aggregator (SpecAggregate) *)

PageViewsOf(t, u) == {i \in RowsOf(t, u) : t[i].event = "page_view"}

HomepageViewsOf(t, u) == {i \in PageViewsOf(t, u) : t[i].url = HOMEPAGE}

\* The quotient cell f is exactly k/n.
IsQuotient(f, k, n) == notna(f) /\ f[1][2] # 0 /\ f[1][1] * n = k * f[1][2]

\* C2: for every visitor record of the aggregator, over a partition of any
\* number of visitors, homepage_view_fraction is NaN when the visitor has no
\* page_view event and otherwise exactly k/n, with n the visitor's own
\* page views and k those of them whose URL is the homepage.
C2_HomepageFraction ==
    pc = "aggregated" =>
        \A v \in Indices(uuid_tracker) :
            LET u == uuid_tracker[v].uuid
                n == Cardinality(PageViewsOf(selected_clean_tracker, u))
                k == Cardinality(HomepageViewsOf(selected_clean_tracker, u))
            IN  IF n = 0
                THEN isna(uuid_tracker[v].homepage_pct)
                ELSE IsQuotient(uuid_tracker[v].homepage_pct, k, n)

Scenario6 ==
    << JsonLine("a", "group_v1", Some(2), None),
       JsonLine("a", "page_view", None, HOMEPAGE),
       JsonLine("a", "page_view", None, ABOUT_URL) >>

\* C6: the resolver and aggregator run on the three events (a, group_v1,
\* group 2), (a, page_view, homepage), (a, page_view, homepage + 'about')
\* yield exactly one visitor record, for a, with num_page_views = 2,
\* homepage_view_fraction = 1/2, view_about = 1 and assigned_group = 2.
C6_EndToEnd ==
    (pc = "aggregated" /\ response_text = Scenario6) =>
        /\ Len(uuid_tracker) = 1
        /\ uuid_tracker[1].uuid = "a"
        /\ uuid_tracker[1].num_page_views = 2
        /\ IsQuotient(uuid_tracker[1].homepage_pct, 1, 2)
        /\ uuid_tracker[1].view_about = 1
        /\ uuid_tracker[1].random_group = Some(2)

C6_Witness ==
    /\ pc = "aggregated"
    /\ response_text = Scenario6
    /\ Len(uuid_tracker) = 1

-----------------------------------------------------------------------------
(* Claims about the datetime conversions (SpecDatetime) *)

\* back is the instant orig with its sub-second part dropped.
SameSecond(orig, back) ==
    /\ notna(back)
    /\ back[1] % MillisPerSecond = 0
    /\ back[1] <= orig[1]
    /\ orig[1] < back[1] + MillisPerSecond

\* C7: every timestamp of a datetime column, converted to whole
\* epoch-seconds and back, is the original timestamp to the second (the
\* sub-second part dropped, the same UTC second), before and after the epoch.
C7_RoundTrip ==
    pc = "converted_back" =>
        \A i \in Indices(datetime_input.cells) :
            IF isna(datetime_input.cells[i])
            THEN isna(mean_col.cells[i])
            ELSE SameSecond(datetime_input.cells[i], mean_col.cells[i])

\* A converted-back column that held an instant before the epoch with a
\* sub-second part.
C7_Witness ==
    /\ pc = "converted_back"
    /\ \E i \in Indices(datetime_input.cells) :
          /\ notna(datetime_input.cells[i])
          /\ datetime_input.cells[i][1] < 0
          /\ datetime_input.cells[i][1] % MillisPerSecond # 0
          /\ notna(mean_col.cells[i])

-----------------------------------------------------------------------------
(* Claims about the balance tables (SpecBalance) *)

GroupsPresent == {uuid_tracker[i].random_group[1] : i \in Indices(uuid_tracker)}

PairsPresent == {p \in SUBSET GroupsPresent : Cardinality(p) = 2}

\* The rows of the long table for one metric, and those that compare the
\* two groups of p, in either order.
RowsOfMetric(m) ==
    {i \in Indices(pairwise_results) : pairwise_results[i].Characteristic = m}

RowsOfPair(rows, p) ==
    {i \in rows : {pairwise_results[i].Group1, pairwise_results[i].Group2} = p}

WideRowsOfPair(p) ==
    {i \in Indices(pairwise_results) :
        {pairwise_results[i].comparison[1], pairwise_results[i].comparison[2]} = p}

\* C3: the pairwise balance-test output holds, for every analysed metric and
\* every unordered pair of distinct groups present in the visitor table,
\* exactly one row: G*(G-1)/2 rows per metric, no pair repeated in either
\* order and none missing.
C3_PairwiseCoverage ==
    LET G == Cardinality(GroupsPresent)
    IN  /\ pc = "balance_tables" =>
              \A c \in Indices(NumericCols) :
                  /\ Cardinality(RowsOfMetric(NumericCols[c])) * 2 = G * (G - 1)
                  /\ \A p \in PairsPresent :
                        Cardinality(RowsOfPair(RowsOfMetric(NumericCols[c]), p)) = 1
                  /\ \A i \in RowsOfMetric(NumericCols[c]) :
                        pairwise_results[i].Group1 # pairwise_results[i].Group2
        /\ pc = "balance_tables_app" =>
              /\ Len(pairwise_results) * 2 = G * (G - 1)
              /\ \A p \in PairsPresent : Cardinality(WideRowsOfPair(p)) = 1
              /\ \A i \in Indices(pairwise_results) :
                    pairwise_results[i].comparison[1] # pairwise_results[i].comparison[2]

\* Balance tables of a visitor table with three groups.
C3_Witness ==
    /\ pc = "balance_tables"
    /\ Cardinality(GroupsPresent) = 3
    /\ Len(pairwise_results) = 3 * Len(NumericCols)

-----------------------------------------------------------------------------
(* Claims about the A/B module (SpecAB) *)

SignupsOf(g) == Sample(uuid_tracker, g, "num_newsletter_signup")

\* mean(a) > 0 and mean(b) > mean(a), on the columns themselves.
SumOfColumn(col) == RatSum(col)[1]

MeanIsZero(col) == col = <<>> \/ SumOfColumn(col) = 0

MeanGreater(b, a) ==
    /\ a # <<>> /\ b # <<>>
    /\ SumOfColumn(b) * Len(a) > SumOfColumn(a) * Len(b)

IsZero(x) == notna(x) /\ x[1][1] = 0

IsPositive(x) == notna(x) /\ x[1][1] * x[1][2] > 0

\* C8: for every test arm, relative_lift is exactly 0 whenever the control
\* arm's mean conversion is 0 (also when the control arm has no visitors),
\* whatever the test arm's mean; no error is raised.
C8_ZeroLiftOnZeroControl ==
    pc = "ab_test" =>
        /\ error = "none"
        /\ Len(ab_test_results) = Len(TestGroups)
        /\ MeanIsZero(SignupsOf(control_group)) =>
              \A n \in Indices(ab_test_results) :
                  IsZero(ab_test_results[n].relative_lift)

\* Rows computed against a control arm with visitors and no signup, and
\* against a test arm with signups.
C8_Witness ==
    /\ pc = "ab_test"
    /\ SignupsOf(control_group) # <<>>
    /\ MeanIsZero(SignupsOf(control_group))
    /\ ~MeanIsZero(SignupsOf(1))
    /\ IsZero(ab_test_results[1].relative_lift)

OnlyGroups(S) ==
    \A i \in Indices(uuid_tracker) : uuid_tracker[i].random_group[1] \in S

\* C9 as stated: with the two groups [0,0,1,1] (group 1, as control) and
\* [1,1,1,1] (group 2, as treatment) the module reports for group 2 a
\* positive relative lift and a p-value strictly below 1.0.
C9_PositiveLift_AsStated ==
    (/\ pc = "ab_test"
     /\ OnlyGroups({1, 2})
     /\ SignupsOf(1) = <<<<0, 1>>, <<0, 1>>, <<1, 1>>, <<1, 1>>>>
     /\ SignupsOf(2) = <<<<1, 1>>, <<1, 1>>, <<1, 1>>, <<1, 1>>>>) =>
        /\ IsPositive(ab_test_results[2].relative_lift)
        /\ ab_test_results[2].p_value \in {"0", "between 0 and 1"}

\* C9 (amended): with the two groups [0,0,1,1] (group 4, the fixed control)
\* and [1,1,1,1] (group 2, as treatment) the module reports for group 2 a
\* positive relative lift and a p-value strictly below 1.0; in general the
\* lift of a test group is positive whenever the mean of control group 4 is
\* above 0 and the test group's mean is above it.
C9_PositiveLift ==
    pc = "ab_test" =>
        /\ (/\ OnlyGroups({control_group, 2})
            /\ SignupsOf(control_group) = <<<<0, 1>>, <<0, 1>>, <<1, 1>>, <<1, 1>>>>
            /\ SignupsOf(2) = <<<<1, 1>>, <<1, 1>>, <<1, 1>>, <<1, 1>>>>) =>
               /\ IsPositive(ab_test_results[2].relative_lift)
               /\ ab_test_results[2].p_value \in {"0", "between 0 and 1"}
        /\ \A n \in Indices(ab_test_results) :
              (/\ ~MeanIsZero(SignupsOf(control_group))
               /\ MeanGreater(SignupsOf(ab_test_results[n].test_group),
                              SignupsOf(control_group))) =>
                 IsPositive(ab_test_results[n].relative_lift)

C9_Witness ==
    /\ pc = "ab_test"
    /\ OnlyGroups({control_group, 2})
    /\ SignupsOf(control_group) = <<<<0, 1>>, <<0, 1>>, <<1, 1>>, <<1, 1>>>>
    /\ SignupsOf(2) = <<<<1, 1>>, <<1, 1>>, <<1, 1>>, <<1, 1>>>>
    /\ RatEq(ab_test_results[2].relative_lift[1], <<100, 1>>)

-----------------------------------------------------------------------------
(* Claims about the time-series module (SpecSeries) *)

SignupRows == {i \in Indices(selected_clean_tracker) :
                  selected_clean_tracker[i].event = "newsletter_signup"}

SignupDayOf(i) == selected_clean_tracker[i].timestamp[1] \div DayMillis

DatedSignupRows == {i \in SignupRows : notna(selected_clean_tracker[i].timestamp)}

\* The calendar days between the first and the last signup day.
SignupDays ==
    {d \in 0..3 : \E i, j \in DatedSignupRows : SignupDayOf(i) <= d /\ d <= SignupDayOf(j)}

PartitionGroups ==
    {selected_clean_tracker[i].random_group[1] : i \in Indices(selected_clean_tracker)}

\* The visitor's first event carries a non-null referrer.
NewVisitor(u) ==
    \E i \in Indices(selected_clean_tracker) :
        /\ selected_clean_tracker[i].uuid = u
        /\ notna(selected_clean_tracker[i].referrer)
        /\ \A j \in 1..(i - 1) : selected_clean_tracker[j].uuid # u

SignupsAt(d, g, n) ==
    {i \in DatedSignupRows :
        /\ SignupDayOf(i) = d
        /\ selected_clean_tracker[i].random_group[1] = g
        /\ NewVisitor(selected_clean_tracker[i].uuid) = n}

CountRowsAt(d, g, n) ==
    {k \in Indices(daily_counts) :
        /\ daily_counts[k].date = d
        /\ daily_counts[k].random_group = g
        /\ daily_counts[k].is_new_user = n}

\* C4: whenever the partition holds a newsletter_signup event, daily_counts
\* has exactly |dates| * |groups| * 2 rows, one per (calendar day between the
\* first and the last signup day, group present in the partition,
\* new/returning flag), and a combination without a signup event has
\* signups = 0, however many days had no signup.
C4_ZeroFilledGrid ==
    (pc = "time_series" /\ SignupRows # {}) =>
        /\ Len(daily_counts) =
              Cardinality(SignupDays) * Cardinality(PartitionGroups) * 2
        /\ \A d \in SignupDays, g \in PartitionGroups, n \in BOOLEAN :
              /\ Cardinality(CountRowsAt(d, g, n)) = 1
              /\ \A k \in CountRowsAt(d, g, n) :
                    daily_counts[k].signups = Cardinality(SignupsAt(d, g, n))

\* A grid of three days whose middle day had no signup at all, over two
\* groups.
C4_Witness ==
    /\ pc = "time_series"
    /\ Cardinality(SignupDays) = 3
    /\ Cardinality(PartitionGroups) = 2
    /\ Len(daily_counts) = 12
    /\ \E d \in SignupDays :
          /\ \A i \in DatedSignupRows : SignupDayOf(i) # d
          /\ \A k \in Indices(daily_counts) :
                daily_counts[k].date = d => daily_counts[k].signups = 0
    /\ \E k \in Indices(daily_counts) : daily_counts[k].signups > 0

-----------------------------------------------------------------------------
(* Claims about the correlator (SpecIP) *)

SessionStarts ==
    {i \in Indices(clean_tracker) :
        /\ clean_tracker[i].event = "session_start"
        /\ notna(clean_tracker[i].timestamp)}

IpLogs == {j \in Indices(error_log_df) : error_log_df[j].event_type = "ip_log"}

Distance(i, j) ==
    LET t == clean_tracker[i].timestamp[1]
        l == error_log_df[j].timestamp[1]
    IN  IF l >= t THEN l - t ELSE t - l

MappedTo(u) == {k \in Indices(ip_uuid_map.rows) : ip_uuid_map.rows[k].uuid = u}

\* C5: a session_start at T whose nearest IP-log entry is at T+0.9s
\* produces a mapping row for its visitor; a session_start whose IP-log
\* entries are all more than 1 second away produces none; no mapping row
\* pairs a session_start with an IP entry more than 1 second away.
C5_NearestWithinTolerance ==
    pc = "ip_merged" =>
        /\ \A i \in SessionStarts :
              (/\ \E j \in IpLogs :
                     /\ error_log_df[j].timestamp[1]
                          = clean_tracker[i].timestamp[1] + 900
                     /\ \A k \in IpLogs : Distance(i, j) <= Distance(i, k))
                 => MappedTo(clean_tracker[i].uuid) # {}
        /\ \A u \in Uuids :
              (\A i \in SessionStarts, j \in IpLogs :
                  clean_tracker[i].uuid = u => Distance(i, j) > Tolerance)
                 => MappedTo(u) = {}
        /\ \A k \in Indices(ip_uuid_map.rows) :
              \E i \in SessionStarts, j \in IpLogs :
                  /\ clean_tracker[i].uuid = ip_uuid_map.rows[k].uuid
                  /\ error_log_df[j].ip_address = ip_uuid_map.rows[k].ip_address
                  /\ Distance(i, j) <= Tolerance

-----------------------------------------------------------------------------
(* Further claims about the group resolver (Spec) *)

CarriesMarker(u) ==
    \E i \in Indices(clean_tracker) :
        clean_tracker[i].uuid = u /\ clean_tracker[i].event \in VersionMarkers

\* C11: a visitor none of whose events carries a group_v<digits> marker has
\* every event labelled group_v1, also when events of other visitors that
\* carry markers appear earlier in the log.
C11_DefaultVersion ==
    pc = "processed" =>
        \A u \in Uuids :
            ~CarriesMarker(u) =>
                \A i \in Indices(clean_tracker) :
                    clean_tracker[i].uuid = u =>
                        clean_tracker[i].standard_group = "group_v1"

-----------------------------------------------------------------------------
(* Claims about the silent filter (SpecAggregate) *)

\* The fetched log with its version labels, before the filter.
Labelled == ProcessCleanTracker(Normalize(response_text))

\* Some event of row r's (visitor, version) partition has a group value.
PartitionHasGroup(r) ==
    \E j \in Indices(Labelled) :
        /\ Labelled[j].uuid = r.uuid
        /\ Labelled[j].standard_group = r.standard_group
        /\ notna(Labelled[j].group)

EventsOfPartition(u, v) ==
    {j \in Indices(Labelled) :
        Labelled[j].uuid = u /\ Labelled[j].standard_group = v}

-----------------------------------------------------------------------------
(* Claims about the location analysis (SpecGeo) *)

LookupFails(ip_address) == geo_db[ip_address[1]] \in LookupErrors

\* C13: for every IP of the mapping whose geo lookup fails, the location
\* analysis does not raise, goes on with the remaining IPs and records an
\* (ip, error) entry for that IP in its error list.
C13_FailuresCollected ==
    pc = "located" =>
        /\ error = "none"
        /\ \A i \in Indices(ip_uuid_map.rows) :
              IF LookupFails(ip_uuid_map.rows[i].ip_address)
              THEN \E k \in Indices(error_ips) :
                       error_ips[k][1] = ip_uuid_map.rows[i].ip_address
              ELSE \E n \in Indices(location_df) :
                       /\ location_df[n].uuid = ip_uuid_map.rows[i].uuid
                       /\ location_df[n].country
                            = geo_db[ip_uuid_map.rows[i].ip_address[1]]

-----------------------------------------------------------------------------
(* Claims about failures of the fetch (Spec, SpecAggregate) *)

\* C14: an operation given zero qualifying rows returns an empty table with
\* the columns of its non-empty result and does not raise; here the
\* normalizer on an empty primary log.
C14_EmptyInEmptyOut ==
    (pc \in {"fetched", "failed"} /\ status_code = 200 /\ response_text = <<>>) =>
        (pc = "fetched" /\ error = "none" /\ clean_tracker = <<>>)

NothingProduced ==
    /\ clean_tracker = <<>>
    /\ selected_clean_tracker = <<>>
    /\ uuid_tracker = <<>>

\* C16: a non-200 response to the fetch of the primary log ends the run with
\* an error: no normalized table and no downstream table comes out of that
\* fetch, and the fetch is not tried again.
C16_FatalStatus ==
    /\ []((pc # "log" /\ status_code # 200) =>
            (pc = "failed" /\ error = "HTTPError" /\ NothingProduced))
    /\ [][(pc = "failed" /\ status_code # 200) =>
            (pc' = "failed" /\ status_code' = status_code)]_vars

\* The fetch of a log of well-formed lines answered with status 503.
C16_Witness ==
    /\ pc = "failed"
    /\ status_code = 503
    /\ response_text # <<>>
    /\ ~JsonLoadsRaises(response_text)

-----------------------------------------------------------------------------
(* Further claims about the A/B module (SpecAB) *)

ResultRowsOf(g) ==
    {n \in Indices(ab_test_results) : ab_test_results[n].test_group = g}

\* C15: the A/B module produces exactly one result row for each non-control
\* group present in the visitor table, compared against the control group,
\* and no row for a group without visitors.
C15_RowsForPresentGroups ==
    pc = "ab_test" =>
        \A g \in Groups \ {control_group} :
            /\ SignupsOf(g) # <<>> =>
                  /\ Cardinality(ResultRowsOf(g)) = 1
                  /\ \A n \in ResultRowsOf(g) :
                        ab_test_results[n].control_sample_size
                          = Len(SignupsOf(control_group))
            /\ SignupsOf(g) = <<>> => ResultRowsOf(g) = {}

-----------------------------------------------------------------------------
(* Claims about the fill order (Spec) *)

\* The rows of row i's partition that carry a group value of their own.
ValuedBefore(i) ==
    {j \in 1..(i - 1) :
        /\ SamePartition(clean_tracker[i], clean_tracker[j])
        /\ notna(clean_tracker[j].group)}

ValuedAfter(i) ==
    {j \in (i + 1)..Len(clean_tracker) :
        /\ SamePartition(clean_tracker[i], clean_tracker[j])
        /\ notna(clean_tracker[j].group)}

Latest(S) == CHOOSE j \in S : \A k \in S : k <= j

Earliest(S) == CHOOSE j \in S : \A k \in S : j <= k

\* C17: in a (visitor, version) partition in log order, a row with a group
\* value keeps it; a null row after a valued row takes the most recent
\* preceding value; a row before the first valued row takes that earliest
\* value.
C17_FillOrder ==
    pc = "processed" =>
        \A i \in Indices(clean_tracker) :
            IF notna(clean_tracker[i].group)
            THEN clean_tracker[i].random_group = clean_tracker[i].group
            ELSE IF ValuedBefore(i) # {}
            THEN clean_tracker[i].random_group
                   = clean_tracker[Latest(ValuedBefore(i))].group
            ELSE IF ValuedAfter(i) # {}
            THEN clean_tracker[i].random_group
                   = clean_tracker[Earliest(ValuedAfter(i))].group
            ELSE isna(clean_tracker[i].random_group)

\* A partition with a null row between two different values.
C17_Witness ==
    /\ pc = "processed"
    /\ \E i \in Indices(clean_tracker) :
          /\ isna(clean_tracker[i].group)
          /\ ValuedBefore(i) # {} /\ ValuedAfter(i) # {}
          /\ clean_tracker[Latest(ValuedBefore(i))].group
               # clean_tracker[Earliest(ValuedAfter(i))].group
          /\ clean_tracker[i].random_group
               = clean_tracker[Latest(ValuedBefore(i))].group

-----------------------------------------------------------------------------
(* Claims about the user types (SpecUserTypes) *)

EventsOf(u) ==
    {i \in Indices(selected_clean_tracker) : selected_clean_tracker[i].uuid = u}

\* The visitor's events with the smallest timestamp.
FirstEverEvents(u) ==
    {i \in EventsOf(u) :
        /\ notna(selected_clean_tracker[i].timestamp)
        /\ \A j \in EventsOf(u) :
              notna(selected_clean_tracker[j].timestamp) =>
                  selected_clean_tracker[i].timestamp[1]
                    <= selected_clean_tracker[j].timestamp[1]}

\* C18: a visitor is classified new if and only if the visitor's first-ever
\* event (the one with the smallest timestamp) carries a non-null referrer,
\* whatever the order of the visitor's rows in the log (stated for visitors
\* whose first-ever event is unique).
C18_NewByFirstEvent ==
    pc = "user_types" =>
        \A n \in Indices(user_type_data) :
            \A i \in FirstEverEvents(user_type_data[n].uuid) :
                Cardinality(FirstEverEvents(user_type_data[n].uuid)) = 1 =>
                    (user_type_data[n].is_new_user
                        <=> notna(selected_clean_tracker[i].referrer))

-----------------------------------------------------------------------------
(* Claims about the demographic, screen and referral tables *)
(* (SpecDimensions, SpecScreen)                                *)

StatsTotal(stats, col) ==
    SumOver([k \in Indices(stats) |-> stats[k][col]], Indices(stats))

VisitorsWith(event) ==
    {selected_clean_tracker[i].uuid :
        i \in {j \in Indices(selected_clean_tracker) :
                  selected_clean_tracker[j].event = event}}

\* The visitors with a session_start that carries a platform.
VisitorsWithPlatform ==
    {selected_clean_tracker[i].uuid :
        i \in {j \in Indices(selected_clean_tracker) :
                  /\ selected_clean_tracker[j].event = "session_start"
                  /\ notna(selected_clean_tracker[j].platform)}}

\* C19: in the demographic, screen and referral tables every included
\* visitor is counted exactly once per dimension: the counts over all
\* (category, group) cells of a dimension sum to the number of distinct
\* visitors included.
C19_CountedOnce ==
    pc = "referrals" =>
        /\ StatsTotal(dimension_stats.demographic_stats, "count")
             = Cardinality(VisitorsWithPlatform)
        /\ StatsTotal(dimension_stats.screen_stats, "count")
             = Cardinality(VisitorsWith("session_start"))
        /\ StatsTotal(dimension_stats.window_stats, "count")
             = Cardinality(VisitorsWith("session_start"))
        /\ StatsTotal(dimension_stats.referral_stats, "total_visits")
             = Cardinality(VisitorsWith("referral"))

\* The bucket the thresholds give to a width and a height.
BucketOf(width, height) ==
    CASE isna(width) \/ isna(height) -> "Unknown"
      [] notna(width) /\ notna(height) /\ width[1] * height[1] < 1000000 -> "Small"
      [] notna(width) /\ notna(height) /\ width[1] * height[1] >= 1000000
           /\ width[1] * height[1] < 2000000 -> "Medium"
      [] notna(width) /\ notna(height) /\ width[1] * height[1] >= 2000000 -> "Large"

CellsOf(stats, value, g) ==
    {k \in Indices(stats) : stats[k].value = value /\ stats[k].random_group = g}

\* C20: the size bucketing is total and follows the thresholds: Unknown iff
\* width or height is missing, otherwise Small below 1,000,000 pixels,
\* Medium from 1,000,000 and below 2,000,000, Large from 2,000,000; every
\* visitor with a session_start is counted in exactly one screen bucket and
\* one window bucket.
C20_SizeBuckets ==
    pc \in {"screens", "referrals"} =>
        /\ StatsTotal(dimension_stats.screen_stats, "count")
             = Cardinality(VisitorsWith("session_start"))
        /\ StatsTotal(dimension_stats.window_stats, "count")
             = Cardinality(VisitorsWith("session_start"))
        /\ \A i \in Indices(selected_clean_tracker) :
              LET r == selected_clean_tracker[i]
              IN  /\ \E k \in CellsOf(dimension_stats.screen_stats,
                                     BucketOf(r.screenWidth, r.screenHeight),
                                     r.random_group[1]) :
                        dimension_stats.screen_stats[k].count >= 1
                  /\ \E k \in CellsOf(dimension_stats.window_stats,
                                     BucketOf(r.windowWidth, r.windowHeight),
                                     r.random_group[1]) :
                        dimension_stats.window_stats[k].count >= 1

\* A screen of exactly 1,000,000 pixels counted as Medium next to a window
\* without a size counted as Unknown.
C20_Witness ==
    /\ pc = "screens"
    /\ selected_clean_tracker[1].screenWidth = Some(1000)
    /\ selected_clean_tracker[1].screenHeight = Some(1000)
    /\ selected_clean_tracker[1].windowWidth = None
    /\ CellsOf(dimension_stats.screen_stats, "Medium", 1) # {}
    /\ CellsOf(dimension_stats.window_stats, "Unknown", 1) # {}

-----------------------------------------------------------------------------
(* Claims about the power analysis (SpecPower) *)

SameEffect(e, f) ==
    /\ e.kind = f.kind
    /\ e.kind = "finite" =>
          /\ e.sign = f.sign
          /\ RatEq(e.square, f.square)

\* C21: for every result row with a power below 0.8, the required sample
\* size is obtained by inverting the power computation of that row, i.e.
\* solve_power is given the row's standardized effect size, and the
\* shortfall is taken against the smaller of the two sample sizes.
C21_SameEffectSize ==
    pc = "power_analysis" =>
        \A k \in Indices(power_insights) :
            \A n \in Indices(ab_test_results) :
                ab_test_results[n].test_group = power_insights[k].test_group =>
                    /\ SameEffect(power_insights[k].effect_size,
                                  ab_test_results[n].effect_size)
                    /\ power_insights[k].current_n <= ab_test_results[n].control_sample_size
                    /\ power_insights[k].current_n <= ab_test_results[n].test_sample_size

\* C22: the p-value of every A/B result row is that of Welch's
\* unequal-variance t-test of the control sample against the test sample,
\* the variant of the pairwise balance test and of the newsletter test.
C22_WelchPValue ==
    pc = "ab_test" =>
        \A n \in Indices(ab_test_results) :
            ab_test_results[n].p_value =
                WelchPValue(SignupsOf(control_group),
                            SignupsOf(ab_test_results[n].test_group))

-----------------------------------------------------------------------------
(* Further claims about the correlator (SpecIP) *)

NullSessionStarts ==
    {i \in Indices(clean_tracker) :
        /\ clean_tracker[i].event = "session_start"
        /\ isna(clean_tracker[i].timestamp)}

\* C23: when a session_start has a null timestamp, it is left out of the
\* join and the session_starts with a valid timestamp still get their
\* mapping: every one of them with an IP-log entry within the tolerance
\* has a mapping row.
C23_NullTimestampLeftOut ==
    (pc = "ip_merged" /\ NullSessionStarts # {}) =>
        \A i \in SessionStarts :
            (\E j \in IpLogs : Distance(i, j) <= Tolerance)
                => MappedTo(clean_tracker[i].uuid) # {}

-----------------------------------------------------------------------------
(* Claims about the frame of the stages (SpecBalance) *)

\* C24: no stage changes the table it is given: when gen_output_tables
\* (and datetime_to_numeric, which it calls) returns, the visitor table of
\* the caller has the same columns, types and values as before the call.
C24_InputTableUnchanged ==
    [][gen_output_tables => uuid_tracker' = uuid_tracker]_vars

-----------------------------------------------------------------------------
(* Further claims about the datetime conversion (SpecDatetime) *)

\* C25: datetime_to_numeric applied to the timestamps that
\* convert_datetime_back produced succeeds and reproduces the epoch seconds
\* that were converted back.
C25_SymmetricReapplication ==
    (mean_col # <<>> /\ pc \in {"numeric_again", "failed"}) =>
        /\ error = "none"
        /\ pc = "numeric_again"
        /\ mean_col.cells = df_col.cells

-----------------------------------------------------------------------------
(* Further claims about the visitor aggregator (SpecAggregate) *)

PageViewEventsOf(u) ==
    {i \in Indices(selected_clean_tracker) :
        /\ selected_clean_tracker[i].uuid = u
        /\ selected_clean_tracker[i].event = "page_view"}

\* C26: for every visitor, the flag view_about is 1 if and only if one of
\* the visitor's page_view events has a URL containing
\* 'checkmyads.org/about', compared case-insensitively; the URL of an event
\* of another type never sets the flag.
C26_FlagFromPageViews ==
    pc = "aggregated" =>
        \A k \in Indices(uuid_tracker) :
            uuid_tracker[k].view_about = 1
              <=> \E i \in PageViewEventsOf(uuid_tracker[k].uuid) :
                     /\ notna(selected_clean_tracker[i].url)
                     /\ Contains(LowerUrl(selected_clean_tracker[i].url),
                                 <<"checkmyads.org/", "about">>)

-----------------------------------------------------------------------------
(* Claims about the independence of visitors (Spec) *)

\* The log without the events of the visitors other than u.
OwnLines(u) == SelectSeq(response_text, LAMBDA l : l.uuid = u)

\* What the resolver and the filter give for a log.
ResolvedRows(text) == DropUnresolved(ProcessCleanTracker(Normalize(text)))

\* C27: the version and the group resolved for a visitor's events, and
\* whether the events survive the filter, depend only on the visitor's own
\* events: removing the events of the other visitors from the log leaves
\* the visitor's resolved rows as they are.
C27_OwnEventsOnly ==
    pc = "resolved" =>
        \A u \in Uuids :
            SelectSeq(clean_tracker, LAMBDA r : r.uuid = u)
                = ResolvedRows(OwnLines(u))

CountedEvents ==
    [num_sessions |-> "session_start", num_page_views |-> "page_view",
     num_popup_views |-> "popup_view", num_referral |-> "referral",
     num_newsletter_signup |-> "newsletter_signup", num_donation |-> "donation"]

RecordsOf(u) == {k \in Indices(uuid_tracker) : uuid_tracker[k].uuid = u}

\* C28: the aggregator conserves events: the visitor table has exactly one
\* record per distinct visitor id of the partition, every count is a
\* non-negative integer, and for each counted event type the counts of all
\* records sum to the number of events of that type in the partition.
C28_EventsConserved ==
    pc = "aggregated" =>
        /\ \A u \in Uuids :
              Cardinality(RecordsOf(u)) = IF EventsOf(u) = {} THEN 0 ELSE 1
        /\ \A k \in Indices(uuid_tracker) : uuid_tracker[k].uuid \in Uuids
        /\ \A col \in DOMAIN CountedEvents :
              /\ \A k \in Indices(uuid_tracker) : uuid_tracker[k][col] \in Nat
              /\ SumOver([k \in Indices(uuid_tracker) |-> uuid_tracker[k][col]],
                         Indices(uuid_tracker))
                   = Cardinality({i \in Indices(selected_clean_tracker) :
                        selected_clean_tracker[i].event = CountedEvents[col]})

\* A visitor with two events of the same counted type.
C28_Witness ==
    /\ pc = "aggregated"
    /\ \E k \in Indices(uuid_tracker), col \in DOMAIN CountedEvents :
          uuid_tracker[k][col] = 2

-----------------------------------------------------------------------------
(* Claims about the balance-check script (SpecStreamlit) *)

\* C29: every run of the balance-check script in which the fetch succeeds
\* and at least one visitor has a resolved group eventually reaches the
\* balance tables of gen_output_tables: no stage in between aborts the run.
C29_ReachesBalanceTables ==
    [](((pc = "resolved" /\ clean_tracker # <<>>)) => <>(pc = "balance_tables"))

-----------------------------------------------------------------------------
(* Claims about the safety of the correlator (SpecIP) *)

SessionStartsOf(u) == {i \in SessionStarts : clean_tracker[i].uuid = u}

\* C30: each session_start is matched to at most one IP-log entry (a visitor
\* has no more mapping rows than session_starts), the matched entry of a
\* mapping row minimises the absolute time difference to its session_start
\* among all ip_log entries, every mapping row has a non-null ip_address,
\* visitor id and group, and no two mapping rows are equal.
C30_MappingSafety ==
    pc = "ip_merged" =>
        /\ \A u \in Uuids :
              Cardinality(MappedTo(u)) <= Cardinality(SessionStartsOf(u))
        /\ \A k \in Indices(ip_uuid_map.rows) :
              LET row == ip_uuid_map.rows[k]
              IN  /\ notna(row.ip_address)
                  /\ row.uuid \in Uuids
                  /\ notna(row.random_group)
                  /\ \E i \in SessionStartsOf(row.uuid), j \in IpLogs :
                        /\ error_log_df[j].ip_address = row.ip_address
                        /\ clean_tracker[i].random_group = row.random_group
                        /\ \A l \in IpLogs : Distance(i, j) <= Distance(i, l)
        /\ \A k, l \in Indices(ip_uuid_map.rows) :
              ip_uuid_map.rows[k] = ip_uuid_map.rows[l] => k = l

\* A session_start with two IP-log entries within the tolerance, one closer
\* than the other, mapped to the closer one only.
C30_Witness ==
    /\ pc = "ip_merged"
    /\ Len(ip_uuid_map.rows) = 1
    /\ \E i \in SessionStarts, j, l \in IpLogs :
          /\ Distance(i, j) < Distance(i, l)
          /\ Distance(i, l) <= Tolerance
          /\ error_log_df[j].ip_address # error_log_df[l].ip_address
          /\ ip_uuid_map.rows[1].ip_address = error_log_df[j].ip_address

=============================================================================
